---- MODULE Spec2Model ----
(***************************************************************************)
(* A model of the BPE analysis core of tokenizer-backend:                  *)
(*   app/services/merge_forest.py   optimal split, merge forest, subtree   *)
(*   app/services/merge_tree.py     greedy merge tree, step log, conflicts *)
(*   app/services/undertrained.py   reachability based detector            *)
(*   app/services/adapter.py        tiktoken and HuggingFace adapters      *)
(*   app/services/registry.py       LRU registry of loaded adapters        *)
(*   app/routers/                   forest and detection queries, caches   *)
(* Byte strings are sequences of byte values, text strings are sequences   *)
(* of code points, a dict is the sequence of its <<key, value>> items in   *)
(* insertion order.                                                        *)
(***************************************************************************)
EXTENDS Integers, Sequences, FiniteSets, TLC

VARIABLES
    ranks,       \* dict[bytes, int]: the rank table (ranks / ranks_a)
    ranks_b,     \* dict[bytes, int]: the second rank table of a comparison
    text,        \* str: the text of a merge tree request
    vocab,       \* dict[str, int]: adapter.get_vocab()
    merges_raw,  \* list[(str, str)] or NoMerges: adapter.get_merges()
    op,          \* the operation that returned last
    ret,         \* what it returned
    hub,         \* name -> the tokenizer files a load of the name reads now
    _cache,      \* registry._cache: OrderedDict[str, TokenizerAdapter]
    _forest_cache,       \* dict[str, list[MergeEntry]] of services/merge_forest.py
    _undertrained_cache, \* dict[str, list[dict]] of routers/undertrained.py
    req          \* the arguments of the request that returned last

\* the state of the service: the registry, the module-level caches and the
\* tokenizer files behind the names
service == <<hub, _cache, _forest_cache, _undertrained_cache, req>>

vars == <<ranks, ranks_b, text, vocab, merges_raw, op, ret,
          hub, _cache, _forest_cache, _undertrained_cache, req>>

----------------------------------------------------------------------------
(* Bounds of the model *)

\* longest byte string that is a key of a rank table of the forest
MaxSymLen == 3
\* most items of a rank table of the forest
MaxEntries == 4

\* the byte values the forest's rank tables are built from: "a", "b"
ForestBytes == {97, 98}

\* most characters of the text of a merge tree request
MaxTextLen == 2
\* most items of the rank table of a merge tree
MaxTreeEntries == 3
\* most items of the first rank table of a comparison; the second holds
\* one item less
MaxCompareEntries == 2

\* the characters a text is made of: "a" (one byte), U+00E9 (two bytes)
TextChars == {97, 233}

\* most characters of the vocabulary entry the detector examines
MaxTokLen == 3
\* most rules of the ordered merge-rule list
MaxRules == 2

\* most merged symbols a tiktoken table holds beside its base bytes
MaxMerged == 2

\* the base bytes of a tiktoken table: the control byte 0x01, "a", DEL and
\* the continuation byte 0x80
TikBase == <<(<<1>>), (<<97>>), (<<127>>), (<<128>>)>>

\* the characters of the vocabulary entries with markers: "<", ">", "a"
MarkerChars == {60, 62, 97}

\* the characters of vocabulary entries and rules: the control character
\* U+0001, "a", "b", U+00E9
DetectChars == {1, 97, 98, 233}

\* max_cache_size of the TokenizerRegistry of the service (the module-level
\* registry is built with the default of the constructor; the eviction is
\* the same for every size)
MaxCacheSize == 2

\* the HuggingFace model ids the service is asked for; MaxCacheSize + 2 of
\* them are in use
ModelNames == <<"org/bpe", "org/wordlevel", "org/unigram", "org/wordpiece",
                "org/wordpiece-2", "org/wordpiece-3">>

\* the pages and page sizes of the requests
Pages == {1, 2}
PageSizes == {2}

\* the search strings of the requests: none, "A"
Searches == {<<>>, <<65>>}

----------------------------------------------------------------------------
(* Python values *)

\* None where a bytes value is expected (no byte is negative)
None == <<-1>>

\* float("inf"): above every rank of the model
Inf == 1000000

Max(a, b) == IF a >= b THEN a ELSE b

Min(a, b) == IF a <= b THEN a ELSE b

\* the elements of a sequence
Range(seq) == {seq[i] : i \in 1..Len(seq)}

\* k in d
DictHas(d, k) == \E i \in 1..Len(d) : d[i][1] = k

\* d[k]
DictGet(d, k) == d[CHOOSE i \in 1..Len(d) : d[i][1] = k][2]

\* d.get(k, dflt)
DictGetOr(d, k, dflt) == IF DictHas(d, k) THEN DictGet(d, k) ELSE dflt

\* d[k] = v: a new key is appended, a key already present keeps its place
DictSet(d, k, v) ==
    IF DictHas(d, k)
    THEN [i \in 1..Len(d) |-> IF d[i][1] = k THEN <<k, v>> ELSE d[i]]
    ELSE Append(d, <<k, v>>)

\* s[:i] and s[i:] of a bytes value (i counts from 0)
Prefix(s, i) == SubSeq(s, 1, i)
Suffix(s, i) == SubSeq(s, i + 1, Len(s))

\* bytes.hex(): two hexadecimal digits per byte
RECURSIVE Hex(_)
Hex(bs) ==
    IF bs = <<>> THEN <<>>
    ELSE <<Head(bs) \div 16, Head(bs) % 16>> \o Hex(Tail(bs))

----------------------------------------------------------------------------
(* UTF-8 *)

\* U+FFFD, what errors="replace" decodes an undecodable part to
Replacement == 65533

\* "?", what errors="replace" encodes an unencodable code point to
QuestionMark == 63

IsContinuation(b) == b >= 128 /\ b <= 191

\* continuation bytes a lead byte asks for (0: not a lead byte)
NeedOf(b) ==
    IF b >= 194 /\ b <= 223 THEN 1
    ELSE IF b >= 224 /\ b <= 239 THEN 2
    ELSE IF b >= 240 /\ b <= 244 THEN 3
    ELSE 0

\* whether b2 may follow the lead byte b
SecondOk(b, b2) ==
    IF b = 224 THEN b2 >= 160 /\ b2 <= 191
    ELSE IF b = 237 THEN b2 >= 128 /\ b2 <= 159
    ELSE IF b = 240 THEN b2 >= 144 /\ b2 <= 191
    ELSE IF b = 244 THEN b2 >= 128 /\ b2 <= 143
    ELSE IsContinuation(b2)

\* how many of the bytes after the lead byte bs[1] continue its sequence
RECURSIVE ValidTail(_, _)
ValidTail(bs, k) ==
    IF k >= NeedOf(bs[1]) \/ k + 2 > Len(bs) THEN k
    ELSE IF (k = 0 /\ SecondOk(bs[1], bs[2])) \/ (k > 0 /\ IsContinuation(bs[k + 2]))
         THEN ValidTail(bs, k + 1)
         ELSE k

\* the code point of a complete sequence of 1 + n bytes
CodePoint(bs, n) ==
    IF n = 1 THEN (bs[1] - 192) * 64 + (bs[2] - 128)
    ELSE IF n = 2 THEN (bs[1] - 224) * 4096 + (bs[2] - 128) * 64 + (bs[3] - 128)
    ELSE (bs[1] - 240) * 262144 + (bs[2] - 128) * 4096
         + (bs[3] - 128) * 64 + (bs[4] - 128)

\* bytes.decode("utf-8", errors="replace")
RECURSIVE Decode(_)
Decode(bs) ==
    IF bs = <<>> THEN <<>>
    ELSE IF bs[1] < 128 THEN <<bs[1]>> \o Decode(Tail(bs))
    ELSE LET n == NeedOf(bs[1])
             k == ValidTail(bs, 0)
         IN  IF n > 0 /\ k = n
             THEN <<CodePoint(bs, n)>> \o Decode(Suffix(bs, 1 + n))
             ELSE <<Replacement>> \o Decode(Suffix(bs, 1 + k))

\* whether bytes.decode("utf-8") raises UnicodeDecodeError
RECURSIVE DecodeFails(_)
DecodeFails(bs) ==
    IF bs = <<>> THEN FALSE
    ELSE IF bs[1] < 128 THEN DecodeFails(Tail(bs))
    ELSE LET n == NeedOf(bs[1])
         IN  IF n > 0 /\ ValidTail(bs, 0) = n
             THEN DecodeFails(Suffix(bs, 1 + n))
             ELSE TRUE

\* the UTF-8 bytes of one code point; a surrogate is replaced by "?"
EncodeChar(c) ==
    IF c < 128 THEN <<c>>
    ELSE IF c < 2048 THEN <<192 + (c \div 64), 128 + (c % 64)>>
    ELSE IF c >= 55296 /\ c <= 57343 THEN <<QuestionMark>>
    ELSE IF c < 65536
         THEN <<224 + (c \div 4096), 128 + ((c \div 64) % 64), 128 + (c % 64)>>
    ELSE <<240 + (c \div 262144), 128 + ((c \div 4096) % 64),
           128 + ((c \div 64) % 64), 128 + (c % 64)>>

\* str.encode("utf-8", errors="replace")
RECURSIVE Encode(_)
Encode(str) ==
    IF str = <<>> THEN <<>> ELSE EncodeChar(Head(str)) \o Encode(Tail(str))

----------------------------------------------------------------------------
(* app/services/merge_forest.py *)

\* best_split is None
NoSplit == <<>>

\* MergeEntry(token_bytes, rank, ...), is_root defaulting to True
MergeEntry(token_bytes, rank, left_bytes, right_bytes, left_rank, right_rank, is_leaf) ==
    [token_bytes |-> token_bytes, rank |-> rank,
     left_bytes |-> left_bytes, right_bytes |-> right_bytes,
     left_rank |-> left_rank, right_rank |-> right_rank,
     is_leaf |-> is_leaf, is_root |-> TRUE]

\* ScanEntrySplits keeping the first valid split, whatever its score
RECURSIVE ScanEntrySplitsFirstValid(_, _, _, _)
ScanEntrySplitsFirstValid(token_bytes, rk, i, best) ==
    IF i >= Len(token_bytes) THEN best
    ELSE LET left == Prefix(token_bytes, i)
             right == Suffix(token_bytes, i)
             max_rank == Max(DictGet(rk, left), DictGet(rk, right))
         IN  IF DictHas(rk, left) /\ DictHas(rk, right) /\ best[1] = NoSplit
             THEN ScanEntrySplitsFirstValid(token_bytes, rk, i + 1,
                                            <<(<<left, right>>), max_rank>>)
             ELSE ScanEntrySplitsFirstValid(token_bytes, rk, i + 1, best)

\* ScanEntrySplits with "max_rank <= best_max_rank": a later tie replaces
RECURSIVE ScanEntrySplitsLastTie(_, _, _, _)
ScanEntrySplitsLastTie(token_bytes, rk, i, best) ==
    IF i >= Len(token_bytes) THEN best
    ELSE LET left == Prefix(token_bytes, i)
             right == Suffix(token_bytes, i)
             max_rank == Max(DictGet(rk, left), DictGet(rk, right))
         IN  IF DictHas(rk, left) /\ DictHas(rk, right) /\ max_rank <= best[2]
             THEN ScanEntrySplitsLastTie(token_bytes, rk, i + 1,
                                         <<(<<left, right>>), max_rank>>)
             ELSE ScanEntrySplitsLastTie(token_bytes, rk, i + 1, best)

\* the loop "for i in range(1, len(token_bytes))" of build_merge_entries,
\* from split position i on, best being (best_split, best_max_rank) so far
RECURSIVE ScanEntrySplits(_, _, _, _)
ScanEntrySplits(token_bytes, rk, i, best) ==
    IF i >= Len(token_bytes) THEN best
    ELSE LET left == Prefix(token_bytes, i)
             right == Suffix(token_bytes, i)
             max_rank == Max(DictGet(rk, left), DictGet(rk, right))
         IN  IF DictHas(rk, left) /\ DictHas(rk, right) /\ max_rank < best[2]
             THEN ScanEntrySplits(token_bytes, rk, i + 1, <<(<<left, right>>), max_rank>>)
             ELSE ScanEntrySplits(token_bytes, rk, i + 1, best)

\* the record build_merge_entries appends for one item of ranks
\* EntryOf without the test "len(token_bytes) <= 1", its scan starting at
\* range(0, ...): a zero-length left half is a candidate
EntryOfSplitsFromZero(rk, token_bytes, rank) ==
    LET best_split == ScanEntrySplits(token_bytes, rk, 0, <<NoSplit, Inf>>)[1]
    IN  IF best_split # NoSplit
        THEN MergeEntry(token_bytes, rank, best_split[1], best_split[2],
                        DictGet(rk, best_split[1]), DictGet(rk, best_split[2]),
                        FALSE)
        ELSE MergeEntry(token_bytes, rank, None, None, -1, -1, TRUE)

EntryOf(rk, token_bytes, rank) ==
    IF Len(token_bytes) <= 1
    THEN MergeEntry(token_bytes, rank, None, None, -1, -1, TRUE)
    ELSE LET best_split == ScanEntrySplits(token_bytes, rk, 1, <<NoSplit, Inf>>)[1]
         IN  IF best_split # NoSplit
             THEN MergeEntry(token_bytes, rank, best_split[1], best_split[2],
                             DictGet(rk, best_split[1]), DictGet(rk, best_split[2]),
                             FALSE)
             ELSE MergeEntry(token_bytes, rank, None, None, -1, -1, TRUE)

\* ChildrenOf recording only the left half of each split
ChildrenOfLeftOnly(entries) ==
    {entries[i].left_bytes :
        i \in {j \in 1..Len(entries) : entries[j].left_bytes # None}}

\* the set children after the first loop of build_merge_entries
ChildrenOf(entries) ==
    UNION {{entries[i].left_bytes, entries[i].right_bytes} :
              i \in {j \in 1..Len(entries) : entries[j].left_bytes # None}}

\* the second loop of build_merge_entries: mark non-root entries
MarkRoots(entries, children) ==
    [i \in 1..Len(entries) |->
        IF entries[i].token_bytes \in children
        THEN [entries[i] EXCEPT !.is_root = FALSE]
        ELSE entries[i]]

build_merge_entries(rk) ==
    LET entries == [i \in 1..Len(rk) |-> EntryOf(rk, rk[i][1], rk[i][2])]
    IN  MarkRoots(entries, ChildrenOf(entries))

\* the loop "for i in range(1, len(token_bytes))" of get_subtree
RECURSIVE ScanSubtreeSplits(_, _, _, _)
ScanSubtreeSplits(token_bytes, rk, i, best) ==
    IF i >= Len(token_bytes) THEN best
    ELSE LET left == Prefix(token_bytes, i)
             right == Suffix(token_bytes, i)
             max_rank == Max(DictGet(rk, left), DictGet(rk, right))
         IN  IF DictHas(rk, left) /\ DictHas(rk, right) /\ max_rank < best[2]
             THEN ScanSubtreeSplits(token_bytes, rk, i + 1, <<(<<left, right>>), max_rank>>)
             ELSE ScanSubtreeSplits(token_bytes, rk, i + 1, best)

\* the dict get_subtree returns; kids holds "left" and "right" when present
SubtreeNode(token_bytes, rank, is_leaf, kids) ==
    [token |-> Decode(token_bytes), token_hex |-> Hex(token_bytes),
     rank |-> rank, is_leaf |-> is_leaf, kids |-> kids]

\* get_subtree with the test "len(token_bytes) <= 2": a symbol of two bytes
\* is returned as a leaf, split or not
RECURSIVE get_subtree_leaf_at_two(_, _)
get_subtree_leaf_at_two(rk, token_bytes) ==
    LET rank == DictGetOr(rk, token_bytes, -1)
    IN  IF Len(token_bytes) <= 2
        THEN SubtreeNode(token_bytes, rank, TRUE, <<>>)
        ELSE LET best_split == ScanSubtreeSplits(token_bytes, rk, 1, <<NoSplit, Inf>>)[1]
             IN  IF best_split = NoSplit
                 THEN SubtreeNode(token_bytes, rank, TRUE, <<>>)
                 ELSE SubtreeNode(token_bytes, rank, FALSE,
                                  <<get_subtree_leaf_at_two(rk, best_split[1]),
                                    get_subtree_leaf_at_two(rk, best_split[2])>>)

RECURSIVE get_subtree(_, _)
get_subtree(rk, token_bytes) ==
    LET rank == DictGetOr(rk, token_bytes, -1)
    IN  IF Len(token_bytes) <= 1
        THEN SubtreeNode(token_bytes, rank, TRUE, <<>>)
        ELSE LET best_split == ScanSubtreeSplits(token_bytes, rk, 1, <<NoSplit, Inf>>)[1]
             IN  IF best_split = NoSplit
                 THEN SubtreeNode(token_bytes, rank, TRUE, <<>>)
                 ELSE SubtreeNode(token_bytes, rank, FALSE,
                                  <<get_subtree(rk, best_split[1]),
                                    get_subtree(rk, best_split[2])>>)

----------------------------------------------------------------------------
(* app/routers/merge_forest.py *)

\* _count_tree: (depth, node_count) of a subtree dict
RECURSIVE _count_tree(_)
_count_tree(node) ==
    IF node.is_leaf THEN <<1, 1>>
    ELSE LET l == _count_tree(node.kids[1])
             r == _count_tree(node.kids[2])
         IN  <<1 + Max(l[1], r[1]), 1 + l[2] + r[2]>>

\* FirstWithRank with the test "r > rank": the first key ranked later than
\* rank
FirstWithRankLater(rk, rank) ==
    IF \E i \in 1..Len(rk) : rk[i][2] > rank
    THEN rk[CHOOSE i \in 1..Len(rk) :
                /\ rk[i][2] > rank
                /\ \A j \in 1..(i - 1) : rk[j][2] <= rank][1]
    ELSE None

\* the first key of ranks whose value is rank, or None
FirstWithRank(rk, rank) ==
    IF \E i \in 1..Len(rk) : rk[i][2] = rank
    THEN rk[CHOOSE i \in 1..Len(rk) :
                /\ rk[i][2] = rank
                /\ \A j \in 1..(i - 1) : rk[j][2] # rank][1]
    ELSE None

\* the response of GET /api/merge-forest/subtree/{rank}
SubtreeResponse(rk, rank) ==
    LET target_bytes == FirstWithRank(rk, rank)
    IN  IF target_bytes = None
        THEN [status |-> 404]
        ELSE LET tree == get_subtree(rk, target_bytes)
                 cnt == _count_tree(tree)
             IN  [status |-> 200, root |-> tree, depth |-> cnt[1],
                  node_count |-> cnt[2]]

----------------------------------------------------------------------------
(* app/services/merge_tree.py *)

\* best_pair is None
NoPair == <<-1>>

\* MergeNode(token, left, right, rank); kids is <<left, right>>, or <<>>
\* when left and right are None
MergeNode(token, kids, rank) == [token |-> token, kids |-> kids, rank |-> rank]

\* MergeNode.is_leaf
is_leaf(node) == node.kids = <<>>

\* LeafNodes that gives the empty text one node of no bytes
LeafNodesNeverEmpty(str) ==
    LET bs == Encode(str)
    IN  IF bs = <<>> THEN <<MergeNode(<<>>, <<>>, -1)>>
        ELSE [i \in 1..Len(bs) |-> MergeNode(<<bs[i]>>, <<>>, -1)]

\* [MergeNode(bytes([b])) for b in text.encode("utf-8")]
LeafNodes(str) ==
    LET bs == Encode(str)
    IN  [i \in 1..Len(bs) |-> MergeNode(<<bs[i]>>, <<>>, -1)]

\* ScanPairs with "rank <= best_rank": the rightmost of equal ranks wins
RECURSIVE ScanPairsLastTie(_, _, _, _)
ScanPairsLastTie(nodes, rk, i, best) ==
    IF i >= Len(nodes) - 1 THEN best
    ELSE LET pair == nodes[i + 1].token \o nodes[i + 2].token
         IN  IF DictHas(rk, pair) /\ DictGet(rk, pair) <= best[1]
             THEN ScanPairsLastTie(nodes, rk, i + 1, <<DictGet(rk, pair), i, pair>>)
             ELSE ScanPairsLastTie(nodes, rk, i + 1, best)

\* the loop "for i in range(len(nodes) - 1)" of build_merge_tree from
\* position i on (i counts from 0), best being
\* <<best_rank, best_idx, best_pair>> so far
RECURSIVE ScanPairs(_, _, _, _)
ScanPairs(nodes, rk, i, best) ==
    IF i >= Len(nodes) - 1 THEN best
    ELSE LET pair == nodes[i + 1].token \o nodes[i + 2].token
         IN  IF DictHas(rk, pair) /\ DictGet(rk, pair) < best[1]
             THEN ScanPairs(nodes, rk, i + 1, <<DictGet(rk, pair), i, pair>>)
             ELSE ScanPairs(nodes, rk, i + 1, best)

\* nodes[:best_idx] + [merged] + nodes[best_idx + 2:]
ReplacePair(nodes, best_idx, merged) ==
    SubSeq(nodes, 1, best_idx) \o <<merged>> \o SubSeq(nodes, best_idx + 3, Len(nodes))

\* the while loop of build_merge_tree; trace holds the value of nodes at
\* the start and after each iteration run so far
RECURSIVE MergeLoop(_, _)
MergeLoop(trace, rk) ==
    LET nodes == trace[Len(trace)]
    IN  IF ~(Len(nodes) > 1) THEN trace
        ELSE LET best == ScanPairs(nodes, rk, 0, <<Inf, -1, NoPair>>)
             IN  IF best[3] = NoPair THEN trace
                 ELSE LET merged == MergeNode(best[3],
                                              <<nodes[best[2] + 1], nodes[best[2] + 2]>>,
                                              best[1])
                      IN  MergeLoop(Append(trace, ReplacePair(nodes, best[2], merged)), rk)

\* the values nodes takes in build_merge_tree(text, ranks)
MergeTrace(str, rk) == MergeLoop(<<LeafNodes(str)>>, rk)

build_merge_tree(str, rk) ==
    LET trace == MergeTrace(str, rk) IN trace[Len(trace)]

\* MergeStep(step, merged_token, rank, tokens_after)
MergeStep(step, merged_token, rank, tokens_after) ==
    [step |-> step, merged_token |-> merged_token, rank |-> rank,
     tokens_after |-> tokens_after]

\* ScanStepPairs with "rank <= best_rank": the rightmost of equal ranks wins
RECURSIVE ScanStepPairsLastTie(_, _, _, _)
ScanStepPairsLastTie(nodes, rk, i, best) ==
    IF i >= Len(nodes) - 1 THEN best
    ELSE LET pair == nodes[i + 1].token \o nodes[i + 2].token
         IN  IF DictHas(rk, pair) /\ DictGet(rk, pair) <= best[1]
             THEN ScanStepPairsLastTie(nodes, rk, i + 1, <<DictGet(rk, pair), i, pair>>)
             ELSE ScanStepPairsLastTie(nodes, rk, i + 1, best)

\* the loop "for i in range(len(nodes) - 1)" of compute_merge_steps
RECURSIVE ScanStepPairs(_, _, _, _)
ScanStepPairs(nodes, rk, i, best) ==
    IF i >= Len(nodes) - 1 THEN best
    ELSE LET pair == nodes[i + 1].token \o nodes[i + 2].token
         IN  IF DictHas(rk, pair) /\ DictGet(rk, pair) < best[1]
             THEN ScanStepPairs(nodes, rk, i + 1, <<DictGet(rk, pair), i, pair>>)
             ELSE ScanStepPairs(nodes, rk, i + 1, best)

\* StepLoop taking the snapshot tokens_after before the merge is applied
RECURSIVE StepLoopSnapshotBefore(_, _, _, _)
StepLoopSnapshotBefore(nodes, rk, steps, step_num) ==
    IF ~(Len(nodes) > 1) THEN steps
    ELSE LET best == ScanStepPairs(nodes, rk, 0, <<Inf, -1, NoPair>>)
         IN  IF best[3] = NoPair THEN steps
             ELSE LET merged == MergeNode(best[3],
                                          <<nodes[best[2] + 1], nodes[best[2] + 2]>>,
                                          best[1])
                      after == ReplacePair(nodes, best[2], merged)
                  IN  StepLoopSnapshotBefore(
                          after, rk,
                          Append(steps,
                                 MergeStep(step_num, Decode(best[3]), best[1],
                                           [i \in 1..Len(nodes) |->
                                               Decode(nodes[i].token)])),
                          step_num + 1)

\* StepLoop logging a step for the last scan too, the one that finds no pair
RECURSIVE StepLoopLogsLastScan(_, _, _, _)
StepLoopLogsLastScan(nodes, rk, steps, step_num) ==
    IF ~(Len(nodes) > 1)
    THEN Append(steps, MergeStep(step_num, <<>>, -1,
                                 [i \in 1..Len(nodes) |-> Decode(nodes[i].token)]))
    ELSE LET best == ScanStepPairs(nodes, rk, 0, <<Inf, -1, NoPair>>)
         IN  IF best[3] = NoPair THEN steps
             ELSE LET merged == MergeNode(best[3],
                                          <<nodes[best[2] + 1], nodes[best[2] + 2]>>,
                                          best[1])
                      after == ReplacePair(nodes, best[2], merged)
                  IN  StepLoopLogsLastScan(
                          after, rk,
                          Append(steps,
                                 MergeStep(step_num, Decode(best[3]), best[1],
                                           [i \in 1..Len(after) |->
                                               Decode(after[i].token)])),
                          step_num + 1)

\* the while loop of compute_merge_steps
RECURSIVE StepLoop(_, _, _, _)
StepLoop(nodes, rk, steps, step_num) ==
    IF ~(Len(nodes) > 1) THEN steps
    ELSE LET best == ScanStepPairs(nodes, rk, 0, <<Inf, -1, NoPair>>)
         IN  IF best[3] = NoPair THEN steps
             ELSE LET merged == MergeNode(best[3],
                                          <<nodes[best[2] + 1], nodes[best[2] + 2]>>,
                                          best[1])
                      after == ReplacePair(nodes, best[2], merged)
                  IN  StepLoop(after, rk,
                               Append(steps,
                                      MergeStep(step_num, Decode(best[3]), best[1],
                                                [i \in 1..Len(after) |->
                                                    Decode(after[i].token)])),
                               step_num + 1)

compute_merge_steps(str, rk) == StepLoop(LeafNodes(str), rk, <<>>, 1)

\* node_to_dict; kids holds "left" and "right" when present
RECURSIVE node_to_dict(_)
node_to_dict(node) ==
    [token |-> Decode(node.token), rank |-> node.rank, is_leaf |-> is_leaf(node),
     kids |-> IF ~is_leaf(node)
              THEN <<node_to_dict(node.kids[1]), node_to_dict(node.kids[2])>>
              ELSE <<>>]

\* collect_intermediates_from_node that does not descend into node.right
RECURSIVE CollectLeftOnly(_, _)
CollectLeftOnly(node, acc) ==
    IF ~is_leaf(node)
    THEN CollectLeftOnly(node.kids[1], acc \cup {Decode(node.token)})
    ELSE acc

\* collect_intermediates_from_node: acc after the call
RECURSIVE collect_intermediates_from_node(_, _)
collect_intermediates_from_node(node, acc) ==
    IF ~is_leaf(node)
    THEN collect_intermediates_from_node(
             node.kids[2],
             collect_intermediates_from_node(node.kids[1],
                                             acc \cup {Decode(node.token)}))
    ELSE acc

\* the loop of collect_intermediates over forest[i..]
RECURSIVE CollectFrom(_, _, _)
CollectFrom(forest, i, acc) ==
    IF i > Len(forest) THEN acc
    ELSE CollectFrom(forest, i + 1, collect_intermediates_from_node(forest[i], acc))

collect_intermediates(forest) == CollectFrom(forest, 1, {})

\* str < str: by code points, a proper prefix first
RECURSIVE StrLess(_, _)
StrLess(x, y) ==
    IF y = <<>> THEN FALSE
    ELSE IF x = <<>> THEN TRUE
    ELSE IF x[1] # y[1] THEN x[1] < y[1]
    ELSE StrLess(Tail(x), Tail(y))

\* sorted(S) of a set of str
RECURSIVE sorted(_)
sorted(S) ==
    IF S = {} THEN <<>>
    ELSE LET least == CHOOSE x \in S : \A y \in S \ {x} : StrLess(x, y)
         IN  <<least>> \o sorted(S \ {least})

\* chr(b) if 32 <= b < 127 else f"0x{b:02x}", for each byte of the text
HexDigit(d) == IF d < 10 THEN 48 + d ELSE 87 + d

initial_bytes(str) ==
    LET bs == Encode(str)
    IN  [i \in 1..Len(bs) |->
            IF 32 <= bs[i] /\ bs[i] < 127 THEN <<bs[i]>>
            ELSE <<48, 120, HexDigit(bs[i] \div 16), HexDigit(bs[i] % 16)>>]

\* the "tokenizer_a" / "tokenizer_b" part of the comparison
TokenizerPart(name, tree, steps, initial) ==
    [name |-> name,
     trees |-> [i \in 1..Len(tree) |-> node_to_dict(tree[i])],
     steps |-> steps,
     final_tokens |-> IF steps # <<>> THEN steps[Len(steps)].tokens_after
                      ELSE initial]

\* only_b without the subtraction of ints_a
OnlyBAll(ints_a, ints_b) == sorted(ints_b)

\* only_b = sorted(ints_b - ints_a)
OnlyB(ints_a, ints_b) == sorted(ints_b \ ints_a)

\* the "conflict_analysis" part of the comparison
ConflictAnalysis(ints_a, ints_b) ==
    LET shared == sorted(ints_a \cap ints_b)
        only_a == sorted(ints_a \ ints_b)
        only_b == OnlyB(ints_a, ints_b)
    IN  [shared_intermediates |-> shared, only_a |-> only_a, only_b |-> only_b,
         is_compatible |-> Len(only_a) = 0 /\ Len(only_b) = 0,
         conflict_count |-> Len(only_a) + Len(only_b)]

compare_merge_trees(str, rk_a, rk_b, name_a, name_b) ==
    LET tree_a == build_merge_tree(str, rk_a)
        tree_b == build_merge_tree(str, rk_b)
        steps_a == compute_merge_steps(str, rk_a)
        steps_b == compute_merge_steps(str, rk_b)
        ints_a == collect_intermediates(tree_a)
        ints_b == collect_intermediates(tree_b)
    IN  [text |-> str,
         initial_bytes |-> initial_bytes(str),
         tokenizer_a |-> TokenizerPart(name_a, tree_a, steps_a, initial_bytes(str)),
         tokenizer_b |-> TokenizerPart(name_b, tree_b, steps_b, initial_bytes(str)),
         conflict_analysis |-> ConflictAnalysis(ints_a, ints_b)]

----------------------------------------------------------------------------
(* app/services/adapter.py, TiktokenAdapter *)

\* get_vocab from item i on: every byte string of _mergeable_ranks is decoded
\* with errors="replace" and keyed by the decoded string
RECURSIVE TiktokenVocabLoop(_, _, _)
TiktokenVocabLoop(mergeable_ranks, i, vc) ==
    IF i > Len(mergeable_ranks) THEN vc
    ELSE TiktokenVocabLoop(mergeable_ranks, i + 1,
                           DictSet(vc, Decode(mergeable_ranks[i][1]),
                                   mergeable_ranks[i][2]))

\* the loop over _special_tokens.items() of get_vocab
RECURSIVE SpecialTokensLoop(_, _, _)
SpecialTokensLoop(special_tokens, i, vc) ==
    IF i > Len(special_tokens) THEN vc
    ELSE SpecialTokensLoop(special_tokens, i + 1,
                           DictSet(vc, special_tokens[i][1], special_tokens[i][2]))

TiktokenGetVocab(mergeable_ranks, special_tokens) ==
    SpecialTokensLoop(special_tokens, 1,
                      TiktokenVocabLoop(mergeable_ranks, 1, <<>>))

\* sorted(ranks.items(), key=lambda x: x[1]): stable, by ascending rank
RECURSIVE SortedByRank(_)
SortedByRank(items) ==
    IF items = <<>> THEN <<>>
    ELSE LET low == CHOOSE i \in 1..Len(items) :
                        /\ \A j \in 1..Len(items) : items[i][2] <= items[j][2]
                        /\ \A j \in 1..(i - 1) : items[i][2] < items[j][2]
         IN  <<items[low]>> \o SortedByRank(SubSeq(items, 1, low - 1)
                                                \o SubSeq(items, low + 1, Len(items)))

\* the loop "for i in range(1, len(token_bytes))" of get_merges from
\* position i on, best being <<best_split, best_max_rank>>
RECURSIVE ScanMergeSplits(_, _, _, _)
ScanMergeSplits(token_bytes, rk, i, best) ==
    IF i >= Len(token_bytes) THEN best
    ELSE LET left == Prefix(token_bytes, i)
             right == Suffix(token_bytes, i)
         IN  IF DictHas(rk, left) /\ DictHas(rk, right)
             THEN LET max_rank == Max(DictGet(rk, left), DictGet(rk, right))
                  IN  IF best[1] = NoSplit \/ max_rank < best[2]
                      THEN ScanMergeSplits(token_bytes, rk, i + 1,
                                           <<(<<left, right>>), max_rank>>)
                      ELSE ScanMergeSplits(token_bytes, rk, i + 1, best)
             ELSE ScanMergeSplits(token_bytes, rk, i + 1, best)

\* merges after the loop over sorted_tokens from item i on
RECURSIVE TiktokenMergesLoop(_, _, _, _)
TiktokenMergesLoop(sorted_tokens, rk, i, merges) ==
    IF i > Len(sorted_tokens) THEN merges
    ELSE LET token_bytes == sorted_tokens[i][1]
             best == ScanMergeSplits(token_bytes, rk, 1, <<NoSplit, -1>>)
         IN  IF Len(token_bytes) <= 1 \/ best[1] = NoSplit
             THEN TiktokenMergesLoop(sorted_tokens, rk, i + 1, merges)
             ELSE TiktokenMergesLoop(sorted_tokens, rk, i + 1,
                                     Append(merges, <<Decode(best[1][1]),
                                                      Decode(best[1][2])>>))

TiktokenGetMerges(mergeable_ranks) ==
    TiktokenMergesLoop(SortedByRank(mergeable_ranks), mergeable_ranks, 1, <<>>)

----------------------------------------------------------------------------
(* app/services/undertrained.py *)

\* adapter.get_merges() returning None (no code point is negative)
NoMerges == <<(<<(<<-1>>), (<<-1>>)>>)>>

\* the confidences of the four reasons, in hundredths
ConfUnreachable == 80
ConfNotProduct == 60
ConfUnusualBytes == 50
ConfIncompleteUtf8 == 70

ReasonUnreachable == "unreachable via BPE merges"
ReasonNotProduct == "not a product of any merge rule"
ReasonUnusualBytes == "contains unusual byte sequences"
ReasonIncompleteUtf8 == "incomplete UTF-8 sequence"

_has_unusual_bytes(token_bytes) ==
    \/ \E i \in 1..Len(token_bytes) :
          \/ token_bytes[i] < 32 /\ token_bytes[i] \notin {9, 10, 13}
          \/ token_bytes[i] = 127
    \/ DecodeFails(token_bytes)

\* [bytes([b]) for b in token_bytes]
BytePieces(token_bytes) == [i \in 1..Len(token_bytes) |-> <<token_bytes[i]>>]

\* ScanPieces with "rank <= best_rank": the rightmost of equal ranks wins
RECURSIVE ScanPiecesLastTie(_, _, _, _)
ScanPiecesLastTie(pieces, merge_ranks, i, best) ==
    IF i >= Len(pieces) - 1 THEN best
    ELSE LET pair == <<pieces[i + 1], pieces[i + 2]>>
         IN  IF DictHas(merge_ranks, pair) /\ DictGet(merge_ranks, pair) <= best[1]
             THEN ScanPiecesLastTie(pieces, merge_ranks, i + 1,
                                    <<DictGet(merge_ranks, pair), i, pair>>)
             ELSE ScanPiecesLastTie(pieces, merge_ranks, i + 1, best)

\* the loop "for i in range(len(pieces) - 1)" of _simulate_bpe from position
\* i on (i counts from 0), best being <<best_rank, best_idx, best_pair>>
RECURSIVE ScanPieces(_, _, _, _)
ScanPieces(pieces, merge_ranks, i, best) ==
    IF i >= Len(pieces) - 1 THEN best
    ELSE LET pair == <<pieces[i + 1], pieces[i + 2]>>
         IN  IF DictHas(merge_ranks, pair) /\ DictGet(merge_ranks, pair) < best[1]
             THEN ScanPieces(pieces, merge_ranks, i + 1,
                             <<DictGet(merge_ranks, pair), i, pair>>)
             ELSE ScanPieces(pieces, merge_ranks, i + 1, best)

\* the while loop of _simulate_bpe
RECURSIVE SimulateLoop(_, _)
SimulateLoop(pieces, merge_ranks) ==
    IF ~(Len(pieces) > 1) THEN pieces
    ELSE LET best == ScanPieces(pieces, merge_ranks, 0, <<Inf, -1, NoPair>>)
         IN  IF best[3] = NoPair THEN pieces
             ELSE SimulateLoop(
                      SubSeq(pieces, 1, best[2])
                          \o <<best[3][1] \o best[3][2]>>
                          \o SubSeq(pieces, best[2] + 3, Len(pieces)),
                      merge_ranks)

_simulate_bpe(token_bytes, merge_ranks, byte_to_rank) ==
    SimulateLoop(BytePieces(token_bytes), merge_ranks)

\* merge_ranks after the rules merges[i..] are entered
RECURSIVE BuildMergeRanks(_, _, _)
BuildMergeRanks(merges, i, merge_ranks) ==
    IF i > Len(merges) THEN merge_ranks
    ELSE BuildMergeRanks(merges, i + 1,
                         DictSet(merge_ranks,
                                 <<Encode(merges[i][1]), Encode(merges[i][2])>>,
                                 i - 1))

\* MergeResults with merge_results.add(left_bytes)
MergeResultsLeftOnly(merges) ==
    {Encode(merges[i][1]) : i \in 1..Len(merges)}

\* MergeResults that enters the product of the first rule only
MergeResultsOfFirstRule(merges) ==
    {Encode(merges[i][1]) \o Encode(merges[i][2]) : i \in 1..Min(Len(merges), 1)}

\* merge_results: left_bytes + right_bytes of every rule
MergeResults(merges) ==
    {Encode(merges[i][1]) \o Encode(merges[i][2]) : i \in 1..Len(merges)}

\* byte_ranks: the single-byte entries of the vocabulary
RECURSIVE BuildByteRanks(_, _, _)
BuildByteRanks(vc, i, byte_ranks) ==
    IF i > Len(vc) THEN byte_ranks
    ELSE BuildByteRanks(vc, i + 1,
                        IF Len(Encode(vc[i][1])) = 1
                        THEN DictSet(byte_ranks, Encode(vc[i][1]), vc[i][2])
                        ELSE byte_ranks)

\* token_str.startswith("<") and token_str.endswith(">")
LooksSpecial(token_str) ==
    /\ Len(token_str) >= 1
    /\ token_str[1] = 60
    /\ token_str[Len(token_str)] = 62

\* whether simulated is the single piece token_bytes
SimulatedSingle(simulated, token_bytes) ==
    Len(simulated) = 1 /\ simulated[1] = token_bytes

\* Checks with "confidence += ..." where the code takes the maximum
ChecksSummed(token_bytes, simulated, merge_results) ==
    LET c1 == ~SimulatedSingle(simulated, token_bytes)
        c2 == token_bytes \notin merge_results /\ Len(token_bytes) > 1
        c3 == _has_unusual_bytes(token_bytes)
        c4 == DecodeFails(token_bytes)
        r1 == IF c1 THEN <<ReasonUnreachable>> ELSE <<>>
        r2 == IF c2 THEN Append(r1, ReasonNotProduct) ELSE r1
        r3 == IF c3 THEN Append(r2, ReasonUnusualBytes) ELSE r2
        r4 == IF c4 THEN Append(r3, ReasonIncompleteUtf8) ELSE r3
        k1 == IF c1 THEN ConfUnreachable ELSE 0
        k2 == IF c2 THEN k1 + ConfNotProduct ELSE k1
        k3 == IF c3 THEN k2 + ConfUnusualBytes ELSE k2
        k4 == IF c4 THEN k3 + ConfIncompleteUtf8 ELSE k3
    IN  [reasons |-> r4, confidence |-> k4]

\* reasons and confidence after the four checks of one vocabulary entry
Checks(token_bytes, simulated, merge_results) ==
    LET c1 == ~SimulatedSingle(simulated, token_bytes)
        c2 == token_bytes \notin merge_results /\ Len(token_bytes) > 1
        c3 == _has_unusual_bytes(token_bytes)
        c4 == DecodeFails(token_bytes)
        r1 == IF c1 THEN <<ReasonUnreachable>> ELSE <<>>
        r2 == IF c2 THEN Append(r1, ReasonNotProduct) ELSE r1
        r3 == IF c3 THEN Append(r2, ReasonUnusualBytes) ELSE r2
        r4 == IF c4 THEN Append(r3, ReasonIncompleteUtf8) ELSE r3
        k1 == IF c1 THEN Max(0, ConfUnreachable) ELSE 0
        k2 == IF c2 THEN Max(k1, ConfNotProduct) ELSE k1
        k3 == IF c3 THEN Max(k2, ConfUnusualBytes) ELSE k2
        k4 == IF c4 THEN Max(k3, ConfIncompleteUtf8) ELSE k3
    IN  [reasons |-> r4, confidence |-> k4]

\* FindingsOf without the "len(token_bytes) <= 1: continue" of the loop
FindingsOfEveryLength(token_str, token_id, merge_ranks, merge_results, byte_ranks) ==
    LET token_bytes == Encode(token_str)
    IN  IF LooksSpecial(token_str) THEN <<>>
        ELSE LET simulated == _simulate_bpe(token_bytes, merge_ranks, byte_ranks)
                 chk == Checks(token_bytes, simulated, merge_results)
             IN  IF chk.reasons = <<>> THEN <<>>
                 ELSE <<[token_id |-> token_id,
                         token_str |-> token_str,
                         token_bytes_hex |-> Hex(token_bytes),
                         reason |-> chk.reasons,
                         confidence |-> chk.confidence,
                         expected_merge_path |-> <<token_str>>,
                         actual_merge_result |->
                             [i \in 1..Len(simulated) |-> Decode(simulated[i])]]>>

\* FindingsOf without the "startswith('<') and endswith('>'): continue" of
\* the loop
FindingsOfMarkersToo(token_str, token_id, merge_ranks, merge_results, byte_ranks) ==
    LET token_bytes == Encode(token_str)
    IN  IF Len(token_bytes) <= 1 THEN <<>>
        ELSE LET simulated == _simulate_bpe(token_bytes, merge_ranks, byte_ranks)
                 chk == Checks(token_bytes, simulated, merge_results)
             IN  IF chk.reasons = <<>> THEN <<>>
                 ELSE <<[token_id |-> token_id,
                         token_str |-> token_str,
                         token_bytes_hex |-> Hex(token_bytes),
                         reason |-> chk.reasons,
                         confidence |-> chk.confidence,
                         expected_merge_path |-> <<token_str>>,
                         actual_merge_result |->
                             [i \in 1..Len(simulated) |-> Decode(simulated[i])]]>>

\* what the loop over vocab.items() appends for one entry: a list of no or
\* one finding. "reason" holds the reasons that "; ".join(reasons) joins.
FindingsOf(token_str, token_id, merge_ranks, merge_results, byte_ranks) ==
    LET token_bytes == Encode(token_str)
    IN  IF Len(token_bytes) <= 1 THEN <<>>
        ELSE IF LooksSpecial(token_str) THEN <<>>
        ELSE LET simulated == _simulate_bpe(token_bytes, merge_ranks, byte_ranks)
                 chk == Checks(token_bytes, simulated, merge_results)
             IN  IF chk.reasons = <<>> THEN <<>>
                 ELSE <<[token_id |-> token_id,
                         token_str |-> token_str,
                         token_bytes_hex |-> Hex(token_bytes),
                         reason |-> chk.reasons,
                         confidence |-> chk.confidence,
                         expected_merge_path |-> <<token_str>>,
                         actual_merge_result |->
                             [i \in 1..Len(simulated) |-> Decode(simulated[i])]]>>

\* undertrained after the loop over vocab.items() from item i on
RECURSIVE FindingsFrom(_, _, _, _, _, _)
FindingsFrom(vc, i, merge_ranks, merge_results, byte_ranks, undertrained) ==
    IF i > Len(vc) THEN undertrained
    ELSE FindingsFrom(vc, i + 1, merge_ranks, merge_results, byte_ranks,
                      undertrained \o FindingsOf(vc[i][1], vc[i][2], merge_ranks,
                                                 merge_results, byte_ranks))

\* SortByConfidence taking the last of the findings of highest confidence
\* first: findings of equal confidence end in reverse order
RECURSIVE SortByConfidenceReversingTies(_)
SortByConfidenceReversingTies(fs) ==
    IF fs = <<>> THEN <<>>
    ELSE LET top == CHOOSE i \in 1..Len(fs) :
                        /\ \A j \in 1..Len(fs) : fs[j].confidence <= fs[i].confidence
                        /\ \A j \in (i + 1)..Len(fs) : fs[j].confidence < fs[i].confidence
         IN  <<fs[top]>> \o SortByConfidenceReversingTies(
                                SubSeq(fs, 1, top - 1) \o SubSeq(fs, top + 1, Len(fs)))

\* list.sort(key=confidence, reverse=True): stable, by descending confidence
RECURSIVE SortByConfidence(_)
SortByConfidence(fs) ==
    IF fs = <<>> THEN <<>>
    ELSE LET top == CHOOSE i \in 1..Len(fs) :
                        /\ \A j \in 1..Len(fs) : fs[j].confidence <= fs[i].confidence
                        /\ \A j \in 1..(i - 1) : fs[j].confidence < fs[i].confidence
         IN  <<fs[top]>> \o SortByConfidence(SubSeq(fs, 1, top - 1)
                                                \o SubSeq(fs, top + 1, Len(fs)))

detect_undertrained_tokens(vc, merges) ==
    IF merges = NoMerges THEN <<>>
    ELSE SortByConfidence(
             FindingsFrom(vc, 1, BuildMergeRanks(merges, 1, <<>>), MergeResults(merges),
                          BuildByteRanks(vc, 1, <<>>), <<>>))

----------------------------------------------------------------------------
(* app/services/adapter.py, HuggingFaceAdapter *)

\* get_merge_ranks() returned None
NoRanks == <<(<<None, -1>>)>>

\* _gpt2_unicode_to_bytes()[ch], or -1 when ch is not a key of the mapping:
\* the printable Latin-1 characters map to themselves, the 68 other bytes
\* are the characters from U+0100 on, in byte order
Gpt2UnicodeToByte(ch) ==
    IF (33 <= ch /\ ch <= 126) \/ (161 <= ch /\ ch <= 172) \/ (174 <= ch /\ ch <= 255)
    THEN ch
    ELSE IF 256 <= ch /\ ch <= 288 THEN ch - 256
    ELSE IF 289 <= ch /\ ch <= 322 THEN ch - 162
    ELSE IF ch = 323 THEN 173
    ELSE -1

\* HuggingFaceAdapter.__init__: files is what AutoTokenizer.from_pretrained
\* reads for the name, model_type the lower-cased class name of the backend
\* tokenizer's model, merges the model's attribute "merges" (NoMerges when
\* the model has none)
HuggingFaceAdapter(files) ==
    [_type |-> IF files.model_type = "unigram" THEN "unigram"
               ELSE IF files.model_type = "wordpiece" THEN "wordpiece"
               ELSE "bpe",
     _tokenizer |-> files]

tokenizer_type(adapter) == adapter._type

get_vocab(adapter) == adapter._tokenizer.vocab

get_merges(adapter) ==
    IF adapter._type # "bpe" THEN NoMerges
    ELSE adapter._tokenizer.merges

\* the bytes of a vocabulary string in get_merge_ranks
Gpt2TokenBytes(token_str) ==
    IF \A i \in 1..Len(token_str) : Gpt2UnicodeToByte(token_str[i]) # -1
    THEN [i \in 1..Len(token_str) |-> Gpt2UnicodeToByte(token_str[i])]
    ELSE Encode(token_str)

\* the loop "for token_str, token_id in vocab.items()" of get_merge_ranks
RECURSIVE MergeRanksLoop(_, _, _)
MergeRanksLoop(vc, i, rk) ==
    IF i > Len(vc) THEN rk
    ELSE LET token_str == vc[i][1]
             token_id == vc[i][2]
         IN  IF /\ token_str # <<>>
                /\ token_str[1] = 60
                /\ token_str[Len(token_str)] = 62
             THEN MergeRanksLoop(vc, i + 1, rk)
             ELSE MergeRanksLoop(vc, i + 1,
                                 DictSet(rk, Gpt2TokenBytes(token_str), token_id))

get_merge_ranks(adapter) ==
    IF adapter._type # "bpe" THEN NoRanks
    ELSE LET rk == MergeRanksLoop(adapter._tokenizer.vocab, 1, <<>>)
         IN  IF rk # <<>> THEN rk ELSE NoRanks

----------------------------------------------------------------------------
(* app/services/registry.py *)

\* OrderedDict.move_to_end(name)
MoveToEnd(d, name) ==
    LET i == CHOOSE k \in 1..Len(d) : d[k][1] = name
    IN  SubSeq(d, 1, i - 1) \o SubSeq(d, i + 1, Len(d)) \o <<d[i]>>

\* TokenizerRegistry._create_adapter(name) for a HuggingFace model id
_create_adapter(files_of, name) == HuggingFaceAdapter(files_of[name])

\* TokenizerRegistry.load(name): the cache after the call
RegistryLoad(cache, files_of, name, max_cache_size) ==
    IF DictHas(cache, name) THEN MoveToEnd(cache, name)
    ELSE LET grown == Append(cache, <<name, _create_adapter(files_of, name)>>)
         IN  IF Len(grown) > max_cache_size THEN Tail(grown) ELSE grown

\* RegistryGet without move_to_end: the order of the cache is the order of
\* the loads
RegistryGetNoMove(cache, name) == cache

\* TokenizerRegistry.get(name): the cache after the call
RegistryGet(cache, name) ==
    IF DictHas(cache, name) THEN MoveToEnd(cache, name) ELSE cache

----------------------------------------------------------------------------
(* app/services/merge_forest.py, the module-level cache *)

\* get_cached_entries(tok_id, ranks): the cache after the call
CacheAfterGet(cache, tok_id, rk) ==
    IF ~DictHas(cache, tok_id)
    THEN DictSet(cache, tok_id, build_merge_entries(rk))
    ELSE cache

\* get_cached_entries(tok_id, ranks): the list it returns
get_cached_entries(cache, tok_id, rk) == DictGet(CacheAfterGet(cache, tok_id, rk), tok_id)

----------------------------------------------------------------------------
(* app/routers/merge_forest.py, get_merge_forest *)

\* str.lower() of the characters of Latin-1
Lower(str) ==
    [i \in 1..Len(str) |->
        IF \/ (65 <= str[i] /\ str[i] <= 90)
           \/ (192 <= str[i] /\ str[i] <= 222 /\ str[i] # 215)
        THEN str[i] + 32 ELSE str[i]]

\* bytes.hex() as a string
HexStr(bs) == [i \in 1..(2 * Len(bs)) |->
                  IF i % 2 = 1 THEN HexDigit(bs[(i + 1) \div 2] \div 16)
                  ELSE HexDigit(bs[i \div 2] % 16)]

\* the operator "in" of two strings
IsIn(a, b) ==
    \E i \in 0..(Len(b) - Len(a)) : SubSeq(b, i + 1, i + Len(a)) = a

\* MergeEntry.token_str()
token_str_of(e) == Decode(e.token_bytes)

\* the list comprehension "[e for e in es if keep[e]]"
RECURSIVE Comprehension(_, _)
Comprehension(es, keep) ==
    IF es = <<>> THEN <<>>
    ELSE (IF keep[Head(es)] THEN <<Head(es)>> ELSE <<>>)
         \o Comprehension(Tail(es), keep)

\* the filter step
FilterEntries(entries, filter) ==
    IF filter = "leaves"
    THEN Comprehension(entries, [e \in Range(entries) |-> e.is_leaf])
    ELSE IF filter = "merges"
    THEN Comprehension(entries, [e \in Range(entries) |-> ~e.is_leaf])
    ELSE IF filter = "roots"
    THEN Comprehension(entries, [e \in Range(entries) |-> e.is_root])
    ELSE entries

\* the search step
SearchEntries(filtered, search) ==
    IF search # <<>>
    THEN LET search_lower == Lower(search)
         IN  Comprehension(filtered,
                 [e \in Range(filtered) |->
                     \/ IsIn(search_lower, Lower(token_str_of(e)))
                     \/ IsIn(search_lower, HexStr(e.token_bytes))])
    ELSE filtered

\* key(a) < key(b) for the key of sort_by
KeyLess(sort_by, a, b) ==
    IF sort_by = "rank" THEN a.rank < b.rank
    ELSE IF sort_by = "byte_length" THEN Len(a.token_bytes) < Len(b.token_bytes)
    ELSE StrLess(token_str_of(a), token_str_of(b))

\* list.sort(key=..., reverse=reverse): stable, equal keys keep their order
\* in both directions
RECURSIVE ListSort(_, _, _)
ListSort(es, sort_by, reverse) ==
    IF es = <<>> THEN <<>>
    ELSE LET first == CHOOSE i \in 1..Len(es) :
                          /\ \A j \in 1..Len(es) :
                                 IF reverse THEN ~KeyLess(sort_by, es[i], es[j])
                                 ELSE ~KeyLess(sort_by, es[j], es[i])
                          /\ \A j \in 1..(i - 1) :
                                 IF reverse THEN KeyLess(sort_by, es[j], es[i])
                                 ELSE KeyLess(sort_by, es[i], es[j])
         IN  <<es[first]>> \o ListSort(SubSeq(es, 1, first - 1)
                                           \o SubSeq(es, first + 1, Len(es)),
                                       sort_by, reverse)

\* "filtered" is the cached list itself, not a new list
IsCachedList(filter, search) ==
    filter \notin {"leaves", "merges", "roots"} /\ search = <<>>

\* _entry_to_schema
_entry_to_schema(e) ==
    [token |-> token_str_of(e), token_hex |-> HexStr(e.token_bytes),
     rank |-> e.rank, byte_length |-> Len(e.token_bytes),
     is_leaf |-> e.is_leaf, is_root |-> e.is_root,
     left |-> IF e.left_bytes # None /\ e.left_bytes # <<>>
              THEN Decode(e.left_bytes) ELSE None,
     left_hex |-> IF e.left_bytes # None /\ e.left_bytes # <<>>
                  THEN HexStr(e.left_bytes) ELSE None,
     left_rank |-> IF e.left_bytes # None /\ e.left_bytes # <<>>
                   THEN e.left_rank ELSE -1,
     right |-> IF e.right_bytes # None /\ e.right_bytes # <<>>
               THEN Decode(e.right_bytes) ELSE None,
     right_hex |-> IF e.right_bytes # None /\ e.right_bytes # <<>>
                   THEN HexStr(e.right_bytes) ELSE None,
     right_rank |-> IF e.right_bytes # None /\ e.right_bytes # <<>>
                    THEN e.right_rank ELSE -1]

\* the number of entries of es that satisfy keep
CountOf(es, keep) == Len(Comprehension(es, keep))

\* the response of GET /api/merge-forest/{tok_id}; entries is the list
\* get_cached_entries returned
MergeForestResponse(entries, page, page_size, search, sort_by, sort_dir, filter) ==
    LET filtered == ListSort(SearchEntries(FilterEntries(entries, filter), search),
                             sort_by, sort_dir = "desc")
        after == IF IsCachedList(filter, search) THEN filtered ELSE entries
        start == (page - 1) * page_size
        page_entries == SubSeq(filtered, start + 1, Min(start + page_size, Len(filtered)))
    IN  [status |-> 200,
         entries |-> [i \in 1..Len(page_entries) |-> _entry_to_schema(page_entries[i])],
         total |-> Len(filtered), page |-> page, page_size |-> page_size,
         total_leaves |-> CountOf(after, [e \in Range(after) |-> e.is_leaf]),
         total_merges |-> CountOf(after, [e \in Range(after) |-> ~e.is_leaf]),
         total_roots |-> CountOf(after, [e \in Range(after) |-> e.is_root])]

\* the cached list after the request: list.sort sorts in place
CachedListAfter(entries, search, sort_by, sort_dir, filter) ==
    IF IsCachedList(filter, search)
    THEN ListSort(entries, sort_by, sort_dir = "desc")
    ELSE entries

----------------------------------------------------------------------------
(* app/routers/undertrained.py *)

\* the response of GET /api/undertrained/{tok_id} for a loaded adapter;
\* all_tokens is _undertrained_cache[tok_id]
UndertrainedResponse(adapter, all_tokens, page, page_size) ==
    IF tokenizer_type(adapter) # "bpe"
    THEN [status |-> 200, tokens |-> <<>>, total |-> 0, page |-> 1,
          page_size |-> page_size, bpe_available |-> FALSE]
    ELSE LET start == (page - 1) * page_size
             end == start + page_size
         IN  [status |-> 200,
              tokens |-> SubSeq(all_tokens, start + 1, Min(end, Len(all_tokens))),
              total |-> Len(all_tokens), page |-> page, page_size |-> page_size,
              bpe_available |-> TRUE]

----------------------------------------------------------------------------
(* Inputs *)

\* the sequences of length 1..n over the set S
RECURSIVE SeqsUpTo(_, _)
SeqsUpTo(S, n) ==
    IF n = 0 THEN {}
    ELSE LET shorter == SeqsUpTo(S, n - 1)
         IN  {<<x>> : x \in S} \cup shorter
             \cup {Append(q, x) : q \in {p \in shorter : Len(p) = n - 1}, x \in S}

\* the non-empty contiguous parts of the sequence w
Substrings(w) ==
    {SubSeq(w, i, j) : i \in 1..Len(w), j \in 1..Len(w)} \ {<<>>}

\* the sequences of at most n distinct elements of S
RECURSIVE DistinctSeqs(_, _)
DistinctSeqs(S, n) ==
    IF n = 0 THEN {<<>>}
    ELSE LET shorter == DistinctSeqs(S, n - 1)
         IN  shorter \cup
             UNION {{Append(q, x) : x \in {y \in S : \A i \in 1..Len(q) : q[i] # y}} :
                       q \in {p \in shorter : Len(p) = n - 1}}

\* a rank table holding the keys of ks in this order, ranked 0, 1, ...
\* (a tiktoken table is loaded in rank order)
TableOf(ks) == [i \in 1..Len(ks) |-> <<ks[i], i - 1>>]

\* the rank tables of the forest: up to MaxEntries keys, each a part of the
\* byte string w or the zero-length symbol
ForestTables(w) ==
    {TableOf(ks) : ks \in DistinctSeqs(Substrings(w) \cup {<<>>}, MaxEntries)}

\* the texts of a merge tree request
Texts == {<<>>} \cup SeqsUpTo(TextChars, MaxTextLen)

\* the keys build_merge_tree can look up for a text: the parts of two or
\* more bytes of its encoding (a pair is never shorter, nor from elsewhere)
PairKeys(str) == {k \in Substrings(Encode(str)) : Len(k) >= 2}

\* the rank tables of a merge tree: up to n keys the text can look up
TreeTables(str, n) == {TableOf(ks) : ks \in DistinctSeqs(PairKeys(str), n)}

\* rank tables that have nothing to do with the text: up to n keys of one or
\* two bytes
AnyTables(n) == {TableOf(ks) : ks \in DistinctSeqs(SeqsUpTo(ForestBytes, 2), n)}

\* adapters[0].name, adapters[1].name
NameA == "tokenizer_a"
NameB == "tokenizer_b"

\* the vocabulary entries the detector examines
DetectTokens == SeqsUpTo(DetectChars, MaxTokLen)

\* the rules that can apply to the entry: the splits of its parts
RulePairs(token_str) ==
    UNION {{<<SubSeq(p, 1, i), SubSeq(p, i + 1, Len(p))>> : i \in 1..(Len(p) - 1)} :
              p \in Substrings(token_str)}

\* the lists of at most n elements of S, repetitions allowed
RECURSIVE ListsUpTo(_, _)
ListsUpTo(S, n) ==
    IF n = 0 THEN {<<>>}
    ELSE LET shorter == ListsUpTo(S, n - 1)
         IN  shorter \cup
             {Append(q, x) : q \in {p \in shorter : Len(p) = n - 1}, x \in S}

\* the tiktoken tables: the base bytes, then at most n merged symbols, each
\* the concatenation of two symbols before it
RECURSIVE GrowTables(_, _)
GrowTables(ks, n) ==
    IF n = 0 THEN {ks}
    ELSE LET fresh == {p \in (1..Len(ks)) \X (1..Len(ks)) :
                          \A m \in 1..Len(ks) : ks[m] # ks[p[1]] \o ks[p[2]]}
         IN  {ks} \cup
             UNION {GrowTables(Append(ks, ks[p[1]] \o ks[p[2]]), n - 1) : p \in fresh}

TiktokenTables == {TableOf(ks) : ks \in GrowTables(TikBase, MaxMerged)}

\* the tokenizer files of a byte-level BPE model: "a", "b", "ab", "<s>" with
\* the rule (a, b)
BpeFiles ==
    [model_type |-> "bpe",
     vocab |-> <<(<<(<<97>>), 0>>), (<<(<<98>>), 1>>), (<<(<<97, 98>>), 2>>),
                 (<<(<<60, 115, 62>>), 3>>)>>,
     merges |-> <<(<<(<<97>>), (<<98>>)>>)>>]

\* the files of the same model id after an update: U+0120 (the space of the
\* byte-level alphabet), "a" and their merge
BpeFilesUpdated ==
    [model_type |-> "bpe",
     vocab |-> <<(<<(<<288>>), 0>>), (<<(<<97>>), 1>>), (<<(<<288, 97>>), 2>>)>>,
     merges |-> <<(<<(<<288>>), (<<97>>)>>)>>]

\* a WordLevel model: the class name holds neither "unigram" nor
\* "wordpiece", the model has no attribute "merges"
WordLevelFiles ==
    [model_type |-> "wordlevel",
     vocab |-> <<(<<(<<97, 98>>), 0>>), (<<(<<60, 117, 110, 107, 62>>), 1>>)>>,
     merges |-> NoMerges]

UnigramFiles ==
    [model_type |-> "unigram",
     vocab |-> <<(<<(<<97>>), 0>>), (<<(<<97, 98>>), 1>>)>>,
     merges |-> NoMerges]

WordPieceFiles ==
    [model_type |-> "wordpiece",
     vocab |-> <<(<<(<<97>>), 0>>), (<<(<<35, 35, 98>>), 1>>)>>,
     merges |-> NoMerges]

\* the model ids in use
Names == {ModelNames[i] : i \in 1..(MaxCacheSize + 2)}

\* the model ids of the forest queries: a BPE model and a Unigram model
QueryNames == {ModelNames[1], ModelNames[3]}

\* the files AutoTokenizer.from_pretrained(name) can find
Snapshots(name) ==
    IF name = "org/bpe" THEN {BpeFiles, BpeFilesUpdated}
    ELSE IF name = "org/wordlevel" THEN {WordLevelFiles}
    ELSE IF name = "org/unigram" THEN {UnigramFiles}
    ELSE {WordPieceFiles}

----------------------------------------------------------------------------
(* The analyses below are applied to their inputs directly: no tokenizer is *)
(* loaded and the caches of the service are empty.                          *)

NoService ==
    /\ hub = <<>>
    /\ _cache = <<>>
    /\ _forest_cache = <<>>
    /\ _undertrained_cache = <<>>
    /\ req = <<>>

----------------------------------------------------------------------------
(* The merge forest of one rank table. A behaviour is one request: the    *)
(* inputs are drawn, then one operation is applied to them and returns.     *)

InitForest ==
    /\ \E w \in SeqsUpTo(ForestBytes, MaxSymLen) : ranks \in ForestTables(w)
    /\ ranks_b = <<>>
    /\ text = <<>>
    /\ vocab = <<>>
    /\ merges_raw = <<>>
    /\ op = "init"
    /\ ret = <<>>
    /\ NoService

\* build_merge_entries(ranks)
BuildMergeEntries ==
    /\ op = "init"
    /\ op' = "build_merge_entries"
    /\ ret' = build_merge_entries(ranks)
    /\ UNCHANGED <<ranks, ranks_b, text, vocab, merges_raw>>
    /\ UNCHANGED service

\* GET /api/merge-forest/subtree/{rank}
GetMergeForestSubtree(rank) ==
    /\ op = "init"
    /\ op' = "get_merge_forest_subtree"
    /\ ret' = SubtreeResponse(ranks, rank)
    /\ req' = [rank |-> rank]
    /\ UNCHANGED <<ranks, ranks_b, text, vocab, merges_raw>>
    /\ UNCHANGED <<hub, _cache, _forest_cache, _undertrained_cache>>

NextForest ==
    \/ BuildMergeEntries
    \/ \E rank \in 0..MaxEntries : GetMergeForestSubtree(rank)

SpecForest == InitForest /\ [][NextForest]_vars

----------------------------------------------------------------------------
(* The merge tree of one text under one rank table *)

InitTree ==
    /\ text \in Texts
    /\ ranks \in TreeTables(text, MaxTreeEntries)
    /\ ranks_b = <<>>
    /\ vocab = <<>>
    /\ merges_raw = <<>>
    /\ op = "init"
    /\ ret = <<>>
    /\ NoService

\* build_merge_tree(text, ranks)
BuildMergeTree ==
    /\ op = "init"
    /\ op' = "build_merge_tree"
    /\ ret' = build_merge_tree(text, ranks)
    /\ UNCHANGED <<ranks, ranks_b, text, vocab, merges_raw>>
    /\ UNCHANGED service

\* compute_merge_steps(text, ranks)
ComputeMergeSteps ==
    /\ op = "init"
    /\ op' = "compute_merge_steps"
    /\ ret' = compute_merge_steps(text, ranks)
    /\ UNCHANGED <<ranks, ranks_b, text, vocab, merges_raw>>
    /\ UNCHANGED service

NextTree == BuildMergeTree \/ ComputeMergeSteps

SpecTree == InitTree /\ [][NextTree]_vars

----------------------------------------------------------------------------
(* The comparison of the merge trees of one text under two rank tables *)

InitCompare ==
    /\ text \in Texts
    /\ ranks \in TreeTables(text, MaxCompareEntries)
    /\ ranks_b \in TreeTables(text, MaxCompareEntries - 1)
    /\ vocab = <<>>
    /\ merges_raw = <<>>
    /\ op = "init"
    /\ ret = <<>>
    /\ NoService

\* POST /api/merge-tree/compare: compare_merge_trees(text, ranks_a, ranks_b, ...)
CompareMergeTrees ==
    /\ op = "init"
    /\ op' = "compare_merge_trees"
    /\ ret' = compare_merge_trees(text, ranks, ranks_b, NameA, NameB)
    /\ UNCHANGED <<ranks, ranks_b, text, vocab, merges_raw>>
    /\ UNCHANGED service

NextCompare == CompareMergeTrees

SpecCompare == InitCompare /\ [][NextCompare]_vars

\* texts whose characters take two and three bytes: U+20AC U+20AC
\* (e2 82 ac e2 82 ac) and U+20AC U+00E9 (e2 82 ac c3 a9)
MultibyteTexts == {<<8364, 8364>>, <<8364, 233>>}

InitCompareMultibyte ==
    /\ text \in MultibyteTexts
    /\ ranks \in TreeTables(text, MaxCompareEntries - 1)
    /\ ranks_b \in TreeTables(text, MaxCompareEntries - 1)
    /\ vocab = <<>>
    /\ merges_raw = <<>>
    /\ op = "init"
    /\ ret = <<>>
    /\ NoService

NextCompareMultibyte == CompareMergeTrees

SpecCompareMultibyte == InitCompareMultibyte /\ [][NextCompareMultibyte]_vars

----------------------------------------------------------------------------
(* The merge tree operations on the empty text, under any two rank tables *)

InitEmptyText ==
    /\ text = <<>>
    /\ ranks \in AnyTables(MaxCompareEntries)
    /\ ranks_b \in AnyTables(MaxCompareEntries - 1)
    /\ vocab = <<>>
    /\ merges_raw = <<>>
    /\ op = "init"
    /\ ret = <<>>
    /\ NoService

NextEmptyText == BuildMergeTree \/ ComputeMergeSteps \/ CompareMergeTrees

SpecEmptyText == InitEmptyText /\ [][NextEmptyText]_vars

----------------------------------------------------------------------------
(* The detector on a vocabulary and the ordered merge-rule list *)

\* the vocabulary entry "ac" beside the rule list [("a", "b")]
ScenarioVocab == <<(<<(<<97, 99>>), 0>>)>>
ScenarioRules == <<(<<(<<97>>), (<<98>>)>>)>>

\* the vocabulary "a", "b", "c", "abc" beside a rule list that holds the rule
\* (a, b) twice: [("a", "b"), ("b", "c"), ("a", "b"), ("ab", "c")]
RepeatedRuleVocab ==
    <<(<<(<<97>>), 0>>), (<<(<<98>>), 1>>), (<<(<<99>>), 2>>), (<<(<<97, 98, 99>>), 3>>)>>
RepeatedRuleList ==
    <<(<<(<<97>>), (<<98>>)>>), (<<(<<98>>), (<<99>>)>>),
      (<<(<<97>>), (<<98>>)>>), (<<(<<97, 98>>), (<<99>>)>>)>>

InitDetect ==
    /\ \/ \E token_str \in DetectTokens :
             /\ vocab = <<(<<token_str, 0>>)>>
             /\ merges_raw \in ListsUpTo(RulePairs(token_str), MaxRules) \cup {NoMerges}
       \/ /\ vocab = ScenarioVocab
          /\ merges_raw = ScenarioRules
       \/ /\ vocab = RepeatedRuleVocab
          /\ merges_raw = RepeatedRuleList
    /\ ranks = <<>>
    /\ ranks_b = <<>>
    /\ text = <<>>
    /\ op = "init"
    /\ ret = <<>>
    /\ NoService

\* detect_undertrained_tokens(adapter)
DetectUndertrainedTokens ==
    /\ op = "init"
    /\ op' = "detect_undertrained_tokens"
    /\ ret' = detect_undertrained_tokens(vocab, merges_raw)
    /\ UNCHANGED <<ranks, ranks_b, text, vocab, merges_raw>>
    /\ UNCHANGED service

NextDetect == DetectUndertrainedTokens

SpecDetect == InitDetect /\ [][NextDetect]_vars

----------------------------------------------------------------------------
(* The detector on a vocabulary with an entry made of "<", ">" and "a",     *)
(* beside the entry "bb" that no rule produces                              *)

InitMarkers ==
    /\ \E token_str \in SeqsUpTo(MarkerChars, MaxTokLen) :
          /\ vocab = <<(<<token_str, 0>>), (<<(<<98, 98>>), 1>>)>>
          /\ merges_raw \in ListsUpTo(RulePairs(token_str), MaxRules)
    /\ ranks = <<>>
    /\ ranks_b = <<>>
    /\ text = <<>>
    /\ op = "init"
    /\ ret = <<>>
    /\ NoService

NextMarkers == DetectUndertrainedTokens

SpecMarkers == InitMarkers /\ [][NextMarkers]_vars

----------------------------------------------------------------------------
(* The detector on a tiktoken adapter: the vocabulary and the rule list are *)
(* the adapter's, derived from its table of byte strings                    *)

InitTiktoken ==
    /\ ranks \in TiktokenTables
    /\ ranks_b = <<>>
    /\ text = <<>>
    /\ vocab = <<>>
    /\ merges_raw = <<>>
    /\ op = "init"
    /\ ret = <<>>
    /\ NoService

\* detect_undertrained_tokens(adapter) for a TiktokenAdapter
DetectTiktoken ==
    /\ op = "init"
    /\ op' = "detect_tiktoken"
    /\ vocab' = TiktokenGetVocab(ranks, <<>>)
    /\ merges_raw' = TiktokenGetMerges(ranks)
    /\ ret' = detect_undertrained_tokens(vocab', merges_raw')
    /\ UNCHANGED <<ranks, ranks_b, text>>
    /\ UNCHANGED service

NextTiktoken == DetectTiktoken

SpecTiktoken == InitTiktoken /\ [][NextTiktoken]_vars

----------------------------------------------------------------------------
(* The service: tokenizers are loaded into the registry, the files behind a *)
(* model id can change between two loads, and the routers answer from the   *)
(* module-level caches.                                                     *)

InitService ==
    /\ ranks = <<>>
    /\ ranks_b = <<>>
    /\ text = <<>>
    /\ vocab = <<>>
    /\ merges_raw = <<>>
    /\ op = "start"
    /\ ret = <<>>
    /\ hub = [name \in Names |->
                 IF name = "org/bpe" THEN BpeFiles
                 ELSE CHOOSE files \in Snapshots(name) : TRUE]
    /\ _cache = <<>>
    /\ _forest_cache = <<>>
    /\ _undertrained_cache = <<>>
    /\ req = <<>>

\* the files of a model id are replaced (outside the service)
Publish(name, files) ==
    /\ files # hub[name]
    /\ hub' = [hub EXCEPT ![name] = files]
    /\ op' = "publish"
    /\ req' = [name |-> name]
    /\ ret' = <<>>
    /\ UNCHANGED <<ranks, ranks_b, text, vocab, merges_raw>>
    /\ UNCHANGED <<_cache, _forest_cache, _undertrained_cache>>

\* POST /api/tokenizers/load
LoadTokenizer(name) ==
    /\ _cache' = RegistryLoad(_cache, hub, name, MaxCacheSize)
    /\ op' = "load_tokenizer"
    /\ req' = [name |-> name]
    /\ ret' = [status |-> 200, id |-> name,
               tokenizer_type |-> tokenizer_type(DictGet(_cache', name)),
               source |-> "huggingface"]
    /\ UNCHANGED <<ranks, ranks_b, text, vocab, merges_raw>>
    /\ UNCHANGED <<hub, _forest_cache, _undertrained_cache>>

\* GET /api/merge-forest/{tok_id}
GetMergeForest(tok_id, page, page_size, search, sort_by, sort_dir, filter) ==
    /\ op' = "get_merge_forest"
    /\ req' = [tok_id |-> tok_id, page |-> page, page_size |-> page_size,
               search |-> search, sort_by |-> sort_by, sort_dir |-> sort_dir,
               filter |-> filter]
    /\ _cache' = RegistryGet(_cache, tok_id)
    /\ IF ~DictHas(_cache, tok_id)
       THEN /\ ret' = [status |-> 404]
            /\ UNCHANGED _forest_cache
       ELSE LET rk == get_merge_ranks(DictGet(_cache, tok_id))
            IN  IF rk = NoRanks
                THEN /\ ret' = [status |-> 400]
                     /\ UNCHANGED _forest_cache
                ELSE LET entries == get_cached_entries(_forest_cache, tok_id, rk)
                     IN  /\ _forest_cache' =
                                DictSet(CacheAfterGet(_forest_cache, tok_id, rk), tok_id,
                                        CachedListAfter(entries, search, sort_by,
                                                        sort_dir, filter))
                         /\ ret' = MergeForestResponse(entries, page, page_size, search,
                                                       sort_by, sort_dir, filter)
    /\ UNCHANGED <<ranks, ranks_b, text, vocab, merges_raw>>
    /\ UNCHANGED <<hub, _undertrained_cache>>

\* GET /api/undertrained/{tok_id}
GetUndertrained(tok_id, page, page_size) ==
    /\ op' = "get_undertrained"
    /\ req' = [tok_id |-> tok_id, page |-> page, page_size |-> page_size]
    /\ _cache' = RegistryGet(_cache, tok_id)
    /\ IF ~DictHas(_cache, tok_id)
       THEN /\ ret' = [status |-> 404]
            /\ UNCHANGED _undertrained_cache
       ELSE LET adapter == DictGet(_cache, tok_id)
            IN  /\ _undertrained_cache' =
                       IF /\ tokenizer_type(adapter) = "bpe"
                          /\ ~DictHas(_undertrained_cache, tok_id)
                       THEN DictSet(_undertrained_cache, tok_id,
                                    detect_undertrained_tokens(get_vocab(adapter),
                                                               get_merges(adapter)))
                       ELSE _undertrained_cache
                /\ ret' = UndertrainedResponse(
                              adapter,
                              DictGetOr(_undertrained_cache', tok_id, <<>>),
                              page, page_size)
    /\ UNCHANGED <<ranks, ranks_b, text, vocab, merges_raw>>
    /\ UNCHANGED <<hub, _forest_cache>>

\* the forest queries with the default values of their parameters
DefaultQuery(tok_id, page_size) ==
    GetMergeForest(tok_id, 1, page_size, <<>>, "rank", "asc", "all")

NextForestService ==
    \/ \E name \in Names : \E files \in Snapshots(name) : Publish(name, files)
    \/ \E name \in Names : LoadTokenizer(name)
    \/ \E tok_id \in Names, page_size \in PageSizes : DefaultQuery(tok_id, page_size)

SpecForestService == InitService /\ [][NextForestService]_vars

\* the forest queries on loaded tokenizers whose files do not change
NextForestQueries ==
    \/ \E name \in QueryNames : LoadTokenizer(name)
    \/ \E tok_id \in QueryNames, page \in Pages, page_size \in PageSizes,
          search \in Searches, sort_by \in {"rank", "byte_length", "token"},
          sort_dir \in {"asc", "desc"},
          filter \in {"all", "leaves", "merges", "roots"} :
              GetMergeForest(tok_id, page, page_size, search, sort_by, sort_dir, filter)

SpecForestQueries == InitService /\ [][NextForestQueries]_vars

NextUndertrainedService ==
    \/ \E name \in Names : \E files \in Snapshots(name) : Publish(name, files)
    \/ \E name \in Names : LoadTokenizer(name)
    \/ \E tok_id \in Names, page \in Pages, page_size \in PageSizes :
              GetUndertrained(tok_id, page, page_size)

SpecUndertrainedService == InitService /\ [][NextUndertrainedService]_vars

----------------------------------------------------------------------------
(* Claims about the merge forest *)

\* the split positions of S whose halves are both keys of rk
ValidSplits(rk, S) ==
    {i \in 1..(Len(S) - 1) : DictHas(rk, Prefix(S, i)) /\ DictHas(rk, Suffix(S, i))}

\* max(rank(left), rank(right)) of the split of S at i
SplitScore(rk, S, i) == Max(DictGet(rk, Prefix(S, i)), DictGet(rk, Suffix(S, i)))

\* the bytes a hex string stands for
RECURSIVE Unhex(_)
Unhex(h) ==
    IF Len(h) < 2 THEN <<>>
    ELSE <<h[1] * 16 + h[2]>> \o Unhex(SubSeq(h, 3, Len(h)))

\* the nodes of a subtree dict
RECURSIVE NodesOf(_)
NodesOf(node) ==
    IF node.kids = <<>> THEN {node}
    ELSE {node} \cup NodesOf(node.kids[1]) \cup NodesOf(node.kids[2])

Built == op = "build_merge_entries"

SubtreeServed == op = "get_merge_forest_subtree" /\ ret.status = 200

InternalEntries == {k \in 1..Len(ret) : ~ret[k].is_leaf}

\* C1: every internal record of build_merge_entries has children that
\* concatenate to its symbol byte for byte, that are keys of the rank table
\* and whose stored ranks are their ranks, and no valid split of the symbol
\* has a smaller max(rank(left), rank(right)) than the stored one.
C1_OptimalSplit ==
    Built =>
        \A k \in InternalEntries :
            LET e == ret[k] IN
            /\ Len(e.token_bytes) > 1
            /\ e.left_bytes # None /\ e.right_bytes # None
            /\ e.left_bytes \o e.right_bytes = e.token_bytes
            /\ DictHas(ranks, e.left_bytes) /\ DictHas(ranks, e.right_bytes)
            /\ e.left_rank = DictGet(ranks, e.left_bytes)
            /\ e.right_rank = DictGet(ranks, e.right_bytes)
            /\ \A i \in ValidSplits(ranks, e.token_bytes) :
                  Max(e.left_rank, e.right_rank) <= SplitScore(ranks, e.token_bytes, i)

\* an internal record whose chosen split is a later one with a strictly
\* smaller score than an earlier valid split
C1_Witness ==
    /\ Built
    /\ \E k \in InternalEntries :
          \E i, j \in ValidSplits(ranks, ret[k].token_bytes) :
              /\ j < i
              /\ Len(ret[k].left_bytes) = i
              /\ SplitScore(ranks, ret[k].token_bytes, i)
                    < SplitScore(ranks, ret[k].token_bytes, j)

\* C2: among the valid splits with the same score as the chosen one, the
\* chosen split is the one with the smallest index, in the records of
\* build_merge_entries and in every internal node of get_subtree's tree.
C2_EarliestTieWins ==
    /\ Built =>
          \A k \in InternalEntries :
              \A j \in ValidSplits(ranks, ret[k].token_bytes) :
                  SplitScore(ranks, ret[k].token_bytes, j)
                      = Max(ret[k].left_rank, ret[k].right_rank)
                  => Len(ret[k].left_bytes) <= j
    /\ SubtreeServed =>
          \A n \in {m \in NodesOf(ret.root) : ~m.is_leaf} :
              LET S == Unhex(n.token_hex)
                  i == Len(Unhex(n.kids[1].token_hex))
              IN  /\ i \in ValidSplits(ranks, S)
                  /\ Unhex(n.kids[2].token_hex) = Suffix(S, i)
                  /\ \A j \in ValidSplits(ranks, S) :
                        SplitScore(ranks, S, j) = SplitScore(ranks, S, i) => i <= j

\* an internal record with two valid splits of the chosen (minimal) score
C2_Witness ==
    /\ Built
    /\ \E k \in InternalEntries :
          \E i, j \in ValidSplits(ranks, ret[k].token_bytes) :
              /\ i < j
              /\ Len(ret[k].left_bytes) = i
              /\ SplitScore(ranks, ret[k].token_bytes, i)
                    = SplitScore(ranks, ret[k].token_bytes, j)

\* C3: a record of the built forest is a root iff its symbol is not the
\* left or right child stored in any other record of that forest.
C3_RootIffNotChild ==
    Built =>
        \A k \in 1..Len(ret) :
            ret[k].is_root <=>
                ~\E m \in 1..Len(ret) :
                    /\ m # k
                    /\ \/ ret[m].left_bytes = ret[k].token_bytes
                       \/ ret[m].right_bytes = ret[k].token_bytes

\* a forest with a root that is an internal record, a record that is only
\* ever a right child and a record that is only ever a left child
C3_Witness ==
    /\ Built
    /\ \E k \in InternalEntries : ret[k].is_root
    /\ \E k \in 1..Len(ret) :
          /\ ~ret[k].is_root
          /\ \A m \in 1..Len(ret) : ret[m].left_bytes # ret[k].token_bytes
    /\ \E k \in 1..Len(ret) :
          /\ ~ret[k].is_root
          /\ \A m \in 1..Len(ret) : ret[m].right_bytes # ret[k].token_bytes

----------------------------------------------------------------------------
(* Claims about the merge tree simulator *)

TreeBuilt == op = "build_merge_tree"

StepsComputed == op = "compute_merge_steps"

\* the positions of nodes whose pair with the next node is a key of rk
Candidates(nodes, rk) ==
    {i \in 1..(Len(nodes) - 1) : DictHas(rk, nodes[i].token \o nodes[i + 1].token)}

PairRank(nodes, rk, i) == DictGet(rk, nodes[i].token \o nodes[i + 1].token)

\* after is before with the nodes at i and i + 1 merged into one node that
\* has the rank of their concatenation and the two nodes as children
MergedAt(before, after, rk, i) ==
    /\ Len(after) = Len(before) - 1
    /\ \A j \in 1..(i - 1) : after[j] = before[j]
    /\ after[i].token = before[i].token \o before[i + 1].token
    /\ after[i].rank = PairRank(before, rk, i)
    /\ after[i].kids = <<before[i], before[i + 1]>>
    /\ \A j \in (i + 1)..Len(after) : after[j] = before[j + 1]

\* one iteration of greedy BPE: the candidate of the lowest rank, the
\* leftmost of them, is merged
GreedyStep(before, after, rk) ==
    \E i \in Candidates(before, rk) :
        /\ \A j \in Candidates(before, rk) :
              \/ PairRank(before, rk, i) < PairRank(before, rk, j)
              \/ PairRank(before, rk, i) = PairRank(before, rk, j) /\ i <= j
        /\ MergedAt(before, after, rk, i)

\* C4: build_merge_tree starts from one leaf per byte of the UTF-8 encoding
\* of the text; every iteration merges exactly the adjacent pair of the
\* lowest rank among the pairs in the rank table, the leftmost of them; the
\* new node has that rank and the two merged nodes as children; the loop
\* stops exactly when no adjacent pair is in the table or one node is left.
C4_GreedyLeftmostMerge ==
    TreeBuilt =>
        LET trace == MergeTrace(text, ranks)
            bs == Encode(text)
        IN  /\ Len(trace[1]) = Len(bs)
            /\ \A i \in 1..Len(bs) :
                  trace[1][i] = [token |-> <<bs[i]>>, kids |-> <<>>, rank |-> -1]
            /\ \A j \in 1..(Len(trace) - 1) : GreedyStep(trace[j], trace[j + 1], ranks)
            /\ ret = trace[Len(trace)]
            /\ Len(ret) <= 1 \/ Candidates(ret, ranks) = {}

\* a text with a character of two bytes, two iterations, the first of which
\* has two candidates of the lowest rank and a candidate of a higher rank
C4_Witness ==
    /\ TreeBuilt
    /\ Len(Encode(text)) > Len(text)
    /\ LET trace == MergeTrace(text, ranks)
       IN  /\ Len(trace) >= 3
           /\ \E i, j, k \in Candidates(trace[1], ranks) :
                 /\ i < j
                 /\ PairRank(trace[1], ranks, i) = PairRank(trace[1], ranks, j)
                 /\ PairRank(trace[1], ranks, i) < PairRank(trace[1], ranks, k)
                 /\ trace[2][i].kids # <<>>

\* C5: the first step's tokens_after has (number of UTF-8 bytes of the
\* text) - 1 elements and every later step's has one element less than the
\* step before it.
C5_StepsShrinkByOne ==
    StepsComputed =>
        \A k \in 1..Len(ret) :
            Len(ret[k].tokens_after) =
                IF k = 1 THEN Len(Encode(text)) - 1
                ELSE Len(ret[k - 1].tokens_after) - 1

\* a step log of two steps or more for a text with a two-byte character
C5_Witness ==
    /\ StepsComputed
    /\ Len(ret) >= 2
    /\ Len(Encode(text)) > Len(text)

\* C6: build_merge_tree and compute_merge_steps return after at most
\* (initial byte count - 1) merge iterations (none for the empty text).
C6_AtMostLenMinusOneIterations ==
    LET n == Len(Encode(text))
    IN  /\ TreeBuilt => Len(MergeTrace(text, ranks)) - 1 <= Max(n - 1, 0)
        /\ StepsComputed => Len(ret) <= Max(n - 1, 0)

\* a text of three bytes or more merged down to one node in n - 1 steps
C6_Witness ==
    /\ StepsComputed
    /\ Len(Encode(text)) >= 3
    /\ Len(ret) = Len(Encode(text)) - 1

----------------------------------------------------------------------------
(* Claims about the conflict analyzer *)

Compared == op = "compare_merge_trees"


\* the display strings of the internal nodes of a list of tree dicts
InternalTexts(trees) ==
    {n.token : n \in {m \in UNION {NodesOf(trees[i]) : i \in 1..Len(trees)} :
                         ~m.is_leaf}}

\* C7: with A and B the sets of display strings of the internal nodes of
\* the two forests, shared_intermediates = A \cap B, only_a = A \ B,
\* only_b = B \ A, is_compatible iff both differences are empty, and
\* conflict_count = |only_a| + |only_b|.
C7_ConflictReport ==
    Compared =>
        LET A == InternalTexts(ret.tokenizer_a.trees)
            B == InternalTexts(ret.tokenizer_b.trees)
            ca == ret.conflict_analysis
        IN  /\ Range(ca.shared_intermediates) = A \cap B
            /\ Range(ca.only_a) = A \ B
            /\ Range(ca.only_b) = B \ A
            /\ ca.is_compatible <=> (A \ B = {} /\ B \ A = {})
            /\ ca.conflict_count = Cardinality(A \ B) + Cardinality(B \ A)
            /\ ca.conflict_count = Len(ca.only_a) + Len(ca.only_b)

\* a comparison with a shared intermediate and one only the first forest
\* has, which is an internal right child
C7_Witness ==
    /\ Compared
    /\ ret.conflict_analysis.shared_intermediates # <<>>
    /\ ret.conflict_analysis.only_a # <<>>
    /\ \E i \in 1..Len(ret.tokenizer_a.trees) :
          LET t == ret.tokenizer_a.trees[i]
          IN  /\ ~t.is_leaf
              /\ ~t.kids[2].is_leaf

\* C8: the comparison with the rank tables exchanged has only_a and only_b
\* exchanged and the same shared_intermediates, is_compatible and
\* conflict_count.
C8_ConflictSymmetry ==
    Compared =>
        LET ab == ret.conflict_analysis
            ba == compare_merge_trees(text, ranks_b, ranks, NameB, NameA).conflict_analysis
        IN  /\ ab.only_a = ba.only_b
            /\ ab.only_b = ba.only_a
            /\ ab.shared_intermediates = ba.shared_intermediates
            /\ ab.is_compatible = ba.is_compatible
            /\ ab.conflict_count = ba.conflict_count

\* a comparison in which each forest has an intermediate the other lacks
C8_Witness ==
    /\ Compared
    /\ ret.conflict_analysis.only_a # <<>>
    /\ ret.conflict_analysis.only_b # <<>>
    /\ ~ret.conflict_analysis.is_compatible

----------------------------------------------------------------------------
(* Claims about the detector of undertrained tokens *)

\* the detector has returned the findings of a vocabulary with a rule list
Detected == op = "detect_undertrained_tokens" /\ merges_raw # NoMerges

\* a symbol written as "<" ... ">"
IsSpecialMarker(token_str) ==
    /\ token_str # <<>>
    /\ Head(token_str) = 60
    /\ token_str[Len(token_str)] = 62

\* the positions in vocab of the multi-byte symbols that are no special marker
MultiByteSymbols ==
    {i \in 1..Len(vocab) :
        Len(Encode(vocab[i][1])) > 1 /\ ~IsSpecialMarker(vocab[i][1])}

\* the reasons the returned findings record for a symbol
ReasonsFor(token_str) ==
    UNION {Range(ret[k].reason) :
              k \in {j \in 1..Len(ret) : ret[j].token_str = token_str}}

\* the rules as pairs of byte strings
RuleBytes ==
    {<<Encode(merges_raw[k][1]), Encode(merges_raw[k][2])>> :
        k \in 1..Len(merges_raw)}

\* the rank the detector's mapping holds for a rule
RuleRank(pair) == DictGet(BuildMergeRanks(merges_raw, 1, <<>>), pair)

\* the positions of a piece sequence whose adjacent pair is a rule
RulePositions(pieces) ==
    {i \in 1..(Len(pieces) - 1) : <<pieces[i], pieces[i + 1]>> \in RuleBytes}

\* greedy merging: the adjacent pair of lowest rule rank, leftmost on ties,
\* is merged until no adjacent pair is a rule
RECURSIVE GreedyMerge(_)
GreedyMerge(pieces) ==
    IF RulePositions(pieces) = {} THEN pieces
    ELSE LET r(i) == RuleRank(<<pieces[i], pieces[i + 1]>>)
             i == CHOOSE c \in RulePositions(pieces) :
                      \A d \in RulePositions(pieces) :
                          r(c) < r(d) \/ (r(c) = r(d) /\ c <= d)
         IN  GreedyMerge(SubSeq(pieces, 1, i - 1)
                             \o <<pieces[i] \o pieces[i + 1]>>
                             \o SubSeq(pieces, i + 2, Len(pieces)))

\* the individual bytes of a symbol
IndividualBytes(token_str) ==
    LET bs == Encode(token_str) IN [k \in 1..Len(bs) |-> <<bs[k]>>]

C10_NotProductIffNoRule ==
    Detected =>
        /\ \A i \in MultiByteSymbols :
               ("not a product of any merge rule" \in ReasonsFor(vocab[i][1]))
                   <=> ~\E k \in 1..Len(merges_raw) :
                           merges_raw[k][1] \o merges_raw[k][2] = vocab[i][1]
        /\ (vocab = ScenarioVocab /\ merges_raw = ScenarioRules) =>
               /\ Len(ret) = 1
               /\ ret[1].token_str = <<97, 99>>
               /\ {"not a product of any merge rule", "unreachable via BPE merges"}
                      \subseteq Range(ret[1].reason)

\* the detector has answered for the entry "ac" beside the rules [("a", "b")]
C10_Witness ==
    /\ Detected
    /\ vocab = ScenarioVocab
    /\ merges_raw = ScenarioRules
    /\ MultiByteSymbols = {1}
    /\ "not a product of any merge rule" \in ReasonsFor(<<97, 99>>)

\* the detector has answered for a tiktoken adapter
TiktokenDetected == op = "detect_tiktoken"

\* the reasons of all returned findings
AllReasons == UNION {Range(ret[k].reason) : k \in 1..Len(ret)}

\* C11: a vocabulary entry whose bytes include a bare 0x80 continuation byte
\* (bytes that fail UTF-8 decoding) is reported with the reason
\* "incomplete UTF-8 sequence". Stated for the multi-byte entries of the
\* adapter's table: each has a finding that carries the reason.
C11_UndecodableEntryReported ==
    TiktokenDetected =>
        \A i \in 1..Len(ranks) :
            (Len(ranks[i][1]) > 1 /\ DecodeFails(ranks[i][1])) =>
                \E k \in 1..Len(ret) :
                    /\ ret[k].token_id = ranks[i][2]
                    /\ "incomplete UTF-8 sequence" \in Range(ret[k].reason)

\* what the detector does instead: the entry "a" 0x80 reaches it as the
\* string "a" U+FFFD, whose bytes decode, and is reported for other reasons
C11_Witness ==
    /\ TiktokenDetected
    /\ \E i \in 1..Len(ranks) :
          /\ ranks[i][1] = <<97, 128>>
          /\ \E k \in 1..Len(ret) :
                /\ ret[k].token_id = ranks[i][2]
                /\ ret[k].token_str = <<97, 65533>>
                /\ ret[k].token_bytes_hex = Hex(<<97, 239, 191, 189>>)
                /\ "incomplete UTF-8 sequence" \notin Range(ret[k].reason)

\* no finding of the detector carries the reason "incomplete UTF-8 sequence"
\* (holds for the adapter's vocabulary and for vocabularies of strings)
C11_NeverIncompleteUtf8 ==
    (TiktokenDetected \/ Detected) =>
        "incomplete UTF-8 sequence" \notin AllReasons

\* the confidence of a reason, in hundredths
ConfidenceOf(reason) ==
    CASE reason = "unreachable via BPE merges" -> 80
      [] reason = "incomplete UTF-8 sequence" -> 70
      [] reason = "not a product of any merge rule" -> 60
      [] reason = "contains unusual byte sequences" -> 50

\* the largest number of a non-empty set
Maximum(S) == CHOOSE c \in S : \A d \in S : d <= c

\* a symbol with a control byte other than tab, line feed and carriage
\* return, with DEL, or with bytes that do not decode
HasUnusualBytes(bs) ==
    \/ \E k \in 1..Len(bs) : bs[k] \in ((0..31) \ {9, 10, 13}) \cup {127}
    \/ DecodeFails(bs)

\* some check triggers for a multi-byte symbol
SomeCheckTriggers(token_str) ==
    \/ GreedyMerge(IndividualBytes(token_str)) # <<Encode(token_str)>>
    \/ ~\E k \in 1..Len(merges_raw) :
           merges_raw[k][1] \o merges_raw[k][2] = token_str
    \/ HasUnusualBytes(Encode(token_str))

\* C12: every finding returned by the detector has at least one reason, and
\* its confidence equals the maximum (not the sum) of the confidences of its
\* reasons (unreachable 0.8, incomplete UTF-8 0.7, not a product 0.6,
\* unusual bytes 0.5); a symbol for which no check triggers does not appear
\* in the output.
C12_ConfidenceIsMaxOfReasons ==
    Detected =>
        /\ \A k \in 1..Len(ret) :
               /\ ret[k].reason # <<>>
               /\ ret[k].confidence
                      = Maximum({ConfidenceOf(r) : r \in Range(ret[k].reason)})
        /\ \A i \in MultiByteSymbols :
               ~SomeCheckTriggers(vocab[i][1]) =>
                   \A k \in 1..Len(ret) : ret[k].token_str # vocab[i][1]

\* a finding with three reasons whose confidence is 0.8, the largest of them
C12_Witness ==
    /\ Detected
    /\ merges_raw # <<>>
    /\ \E k \in 1..Len(ret) :
          /\ Range(ret[k].reason) = {"unreachable via BPE merges",
                                     "not a product of any merge rule",
                                     "contains unusual byte sequences"}
          /\ ret[k].confidence = 80

\* the place of a symbol in the iteration over the vocabulary
VocabPlace(token_str) == CHOOSE i \in 1..Len(vocab) : vocab[i][1] = token_str

\* C13: the list returned by the detector is ordered by non-increasing
\* confidence, and any two findings of equal confidence appear in the order
\* in which their symbols were encountered in the vocabulary iteration.
C13_SortedByConfidenceStable ==
    TiktokenDetected =>
        \A j \in 1..Len(ret) : \A k \in (j + 1)..Len(ret) :
            /\ ret[j].confidence >= ret[k].confidence
            /\ ret[j].confidence = ret[k].confidence =>
                   VocabPlace(ret[j].token_str) < VocabPlace(ret[k].token_str)

\* three findings, two of confidence 0.8 before one of confidence 0.5 whose
\* symbol was encountered between theirs
C13_Witness ==
    /\ TiktokenDetected
    /\ Len(ret) = 3
    /\ ret[1].confidence = 80
    /\ ret[2].confidence = 80
    /\ ret[3].confidence = 50
    /\ VocabPlace(ret[1].token_str) < VocabPlace(ret[3].token_str)
    /\ VocabPlace(ret[3].token_str) < VocabPlace(ret[2].token_str)

----------------------------------------------------------------------------
(* Further claims about the merge forest *)

\* the bytes of a node of a subtree dict
NodeBytes(node) == Unhex(node.token_hex)

\* C17: for every symbol of length 1 in the rank table, and for a
\* zero-length symbol, no split is resolved: build_merge_entries emits a
\* leaf record with no children, and get_subtree returns a leaf node (the
\* subtree request is answered, with a tree of one node).
C17_ShortSymbolsAreLeaves ==
    /\ Built =>
          /\ Len(ret) = Len(ranks)
          /\ \A k \in 1..Len(ret) :
                Len(ret[k].token_bytes) <= 1 =>
                    /\ ret[k].is_leaf
                    /\ ret[k].left_bytes = None
                    /\ ret[k].right_bytes = None
    /\ (op = "get_merge_forest_subtree" /\ ret.status = 200) =>
                /\ \A n \in NodesOf(ret.root) :
                      Len(NodeBytes(n)) <= 1 => n.is_leaf /\ n.kids = <<>>
                /\ Len(NodeBytes(ret.root)) <= 1 =>
                      ret.depth = 1 /\ ret.node_count = 1

\* a forest with the records of the zero-length symbol, of a symbol of one
\* byte and of a symbol that is split
C17_Witness ==
    /\ Built
    /\ \E k \in 1..Len(ret) : ret[k].token_bytes = <<>> /\ ret[k].is_leaf
    /\ \E k \in 1..Len(ret) : Len(ret[k].token_bytes) = 1 /\ ret[k].is_leaf
    /\ InternalEntries # {}

\* the longest path of a subtree dict, counted in nodes
RECURSIVE Height(_)
Height(node) ==
    IF node.kids = <<>> THEN 1
    ELSE 1 + Max(Height(node.kids[1]), Height(node.kids[2]))

\* C18: for every rank table and every starting symbol get_subtree returns:
\* every child node's byte sequence is strictly shorter than its parent's,
\* the leaves are the symbols of length <= 1 and the symbols with no valid
\* split, and the depth of the returned tree is at most the byte length of
\* the starting symbol (the depth counts the nodes of the longest path, as
\* _count_tree does; the one-node tree of a zero-length symbol has depth 1).
C18_SubtreeTerminates ==
    SubtreeServed =>
        /\ \A n \in NodesOf(ret.root) :
               /\ n.kids # <<>> =>
                     /\ Len(NodeBytes(n.kids[1])) < Len(NodeBytes(n))
                     /\ Len(NodeBytes(n.kids[2])) < Len(NodeBytes(n))
                     /\ NodeBytes(n.kids[1]) \o NodeBytes(n.kids[2]) = NodeBytes(n)
               /\ n.is_leaf <=> n.kids = <<>>
               /\ n.is_leaf <=>
                     (Len(NodeBytes(n)) <= 1 \/ ValidSplits(ranks, NodeBytes(n)) = {})
        /\ Height(ret.root) <= Max(Len(NodeBytes(ret.root)), 1)
        /\ ret.depth = Height(ret.root)

\* a subtree as deep as its starting symbol is long, three bytes, in a table
\* that holds the zero-length symbol too
C18_Witness ==
    /\ SubtreeServed
    /\ DictHas(ranks, <<>>)
    /\ Len(NodeBytes(ret.root)) = 3
    /\ ret.depth = 3

----------------------------------------------------------------------------
(* Further claims about the merge tree simulator *)

\* the number of internal nodes of a tree
RECURSIVE InternalCount(_)
InternalCount(node) ==
    IF node.kids = <<>> THEN 0
    ELSE 1 + InternalCount(node.kids[1]) + InternalCount(node.kids[2])

\* the sum of f over 1..n
RECURSIVE SumOver(_, _)
SumOver(f, n) == IF n = 0 THEN 0 ELSE f[n] + SumOver(f, n - 1)

\* the node that an iteration of build_merge_tree created
CreatedNode(before, after) ==
    after[CHOOSE i \in 1..Len(after) :
              /\ after[i].kids = <<before[i], before[i + 1]>>
              /\ \A j \in 1..(i - 1) : after[j] = before[j]
              /\ \A j \in (i + 1)..Len(after) : after[j] = before[j + 1]]

\* C19: the step log of compute_merge_steps has exactly one entry per merge
\* performed by build_merge_tree on the same text and rank table, in the
\* same order: the number of steps equals the number of internal nodes of
\* the returned forest, the step numbers are 1, 2, ..., n, the k-th step's
\* merged_token and rank are the display text and rank of the k-th internal
\* node created, and its tokens_after is the display text of the full node
\* sequence immediately after that merge.
C19_StepLogMatchesTree ==
    StepsComputed =>
        LET trace == MergeTrace(text, ranks)
            forest == build_merge_tree(text, ranks)
        IN  /\ Len(ret) = SumOver([i \in 1..Len(forest) |-> InternalCount(forest[i])],
                                  Len(forest))
            /\ Len(ret) = Len(trace) - 1
            /\ \A k \in 1..Len(ret) :
                  LET created == CreatedNode(trace[k], trace[k + 1])
                  IN  /\ ret[k].step = k
                      /\ ret[k].merged_token = Decode(created.token)
                      /\ ret[k].rank = created.rank
                      /\ ret[k].rank = DictGet(ranks, created.token)
                      /\ ret[k].tokens_after =
                             [i \in 1..Len(trace[k + 1]) |->
                                 Decode(trace[k + 1][i].token)]

\* a log of two steps for a text whose first iteration has two candidates of
\* equal rank
C19_Witness ==
    /\ StepsComputed
    /\ Len(ret) >= 2
    /\ LET leaves == MergeTrace(text, ranks)[1]
       IN  \E i, j \in Candidates(leaves, ranks) :
               i < j /\ PairRank(leaves, ranks, i) = PairRank(leaves, ranks, j)

----------------------------------------------------------------------------
(* Claims about the service and its caches *)

\* a forest query was answered with a forest
ForestServed == op = "get_merge_forest" /\ ret.status = 200

\* the adapter registered under the tokenizer id of the last request
Registered == DictGet(_cache, req.tok_id)

\* C15: after any sequence of tokenizer loads, registry evictions, reloads
\* and forest queries, the forest served for a tokenizer id equals
\* build_merge_entries applied to the rank table of the adapter currently
\* registered under that id (the records are compared without their order,
\* the numbers of leaves and merges of the response with those of that
\* forest).
C15_ServedForestIsCurrent ==
    ForestServed =>
        LET current == build_merge_entries(get_merge_ranks(Registered))
            served == DictGet(_forest_cache, req.tok_id)
        IN  /\ Len(served) = Len(current)
            /\ Range(served) = Range(current)
            /\ ret.total_leaves = CountOf(current, [e \in Range(current) |-> e.is_leaf])
            /\ ret.total_merges = CountOf(current, [e \in Range(current) |-> ~e.is_leaf])

\* the model id was loaded again after its files had changed, and the query
\* is answered with the forest of the old files
C15_Witness ==
    /\ ForestServed
    /\ req.tok_id = "org/bpe"
    /\ Registered = HuggingFaceAdapter(BpeFilesUpdated)
    /\ DictGet(_forest_cache, req.tok_id) =
           build_merge_entries(get_merge_ranks(HuggingFaceAdapter(BpeFiles)))

\* C16: a filtered, searched, sorted or paginated forest query leaves the
\* cached forest unchanged: when the tokenizer id has a cached list before
\* the query, the cache holds the same records in the same order after it,
\* for every combination of filter, search, sort_by and sort_dir.
C16_QueryLeavesCacheUnchanged ==
    [][(op' = "get_merge_forest" /\ DictHas(_forest_cache, req'.tok_id))
           => _forest_cache' = _forest_cache]_vars

\* a query for the whole forest in descending order was answered, and the
\* cached list is no longer in the order build_merge_entries gave it
C16_Witness ==
    /\ ForestServed
    /\ req.sort_dir = "desc"
    /\ IsCachedList(req.filter, req.search)
    /\ DictGet(_forest_cache, req.tok_id) #
           build_merge_entries(get_merge_ranks(Registered))
    /\ Range(DictGet(_forest_cache, req.tok_id)) =
           Range(build_merge_entries(get_merge_ranks(Registered)))

\* C20: a detection query for a tokenizer whose get_merges returns None is
\* answered with bpe_available = false and an empty finding list.
C20_NoMergesIsUnavailable ==
    (/\ op = "get_undertrained"
     /\ ret.status = 200
     /\ get_merges(Registered) = NoMerges)
        => (~ret.bpe_available /\ ret.tokens = <<>> /\ ret.total = 0)

\* the detection query for the WordLevel model: get_merges returns None and
\* the response says the feature is available
C20_Witness ==
    /\ op = "get_undertrained"
    /\ req.tok_id = "org/wordlevel"
    /\ ret.status = 200
    /\ get_merges(Registered) = NoMerges
    /\ ret.bpe_available
    /\ ret.tokens = <<>>

\* the part of C20 that holds: without merge rules the finding list is empty
C20_NoMergesNoFindings ==
    (/\ op = "get_undertrained"
     /\ ret.status = 200
     /\ get_merges(Registered) = NoMerges)
        => (ret.tokens = <<>> /\ ret.total = 0)

----------------------------------------------------------------------------
(* Claims about the records of the merge forest *)

\* the fields of a MergeEntry other than the symbol and its rank
FlagsOf(e) ==
    <<e.left_bytes, e.right_bytes, e.left_rank, e.right_rank, e.is_leaf, e.is_root>>

\* the records of the symbols of length <= 1
TrueLeaves == {e \in Range(ret) : Len(e.token_bytes) <= 1}

\* the records of the multi-byte symbols for which no valid split exists
FallbackLeaves ==
    {e \in Range(ret) : Len(e.token_bytes) > 1 /\ ValidSplits(ranks, e.token_bytes) = {}}

\* C21: a multi-byte symbol for which no valid split exists yields a record
\* that is flagged distinctly from the record of a true (length <= 1) leaf:
\* the two records differ in a field other than the symbol's bytes and rank.
C21_FallbackLeafFlagged ==
    Built => \A t \in TrueLeaves : \A f \in FallbackLeaves : FlagsOf(t) # FlagsOf(f)

\* a forest with a true leaf and a leaf by fallback, both with is_leaf set
C21_Witness ==
    /\ Built
    /\ \E t \in TrueLeaves : \E f \in FallbackLeaves :
           t.is_leaf /\ f.is_leaf /\ FlagsOf(t) = FlagsOf(f)

\* what holds of the two kinds of leaf: every field but the symbol, the rank
\* and is_root is the same
C21_LeavesShareFields ==
    Built => \A t \in TrueLeaves : \A f \in FallbackLeaves :
                 /\ t.is_leaf /\ f.is_leaf
                 /\ t.left_bytes = None /\ f.left_bytes = None
                 /\ t.right_bytes = None /\ f.right_bytes = None
                 /\ t.left_rank = -1 /\ f.left_rank = -1
                 /\ t.right_rank = -1 /\ f.right_rank = -1

----------------------------------------------------------------------------
(* Claims about the subtree lookup *)

\* C22: a subtree lookup by a rank that no symbol of the rank table has ends
\* in HTTP 404 and no subtree; a lookup by a rank that exists returns the
\* subtree of a symbol having exactly that rank.
C22_SubtreeLookupByRank ==
    op = "get_merge_forest_subtree" =>
        /\ ret.status \in {200, 404}
        /\ ret.status = 404 <=> ~\E i \in 1..Len(ranks) : ranks[i][2] = req.rank
        /\ ret.status = 404 => DOMAIN ret = {"status"}
        /\ ret.status = 200 =>
              /\ ret.root.rank = req.rank
              /\ DictHas(ranks, NodeBytes(ret.root))
              /\ DictGet(ranks, NodeBytes(ret.root)) = req.rank
              /\ ret.root = get_subtree(ranks, NodeBytes(ret.root))

\* a lookup that found a split symbol, in a table where another rank is
\* missing
C22_Witness ==
    /\ op = "get_merge_forest_subtree"
    /\ ret.status = 200
    /\ ~ret.root.is_leaf
    /\ req.rank > 0
    /\ Len(ranks) < MaxEntries

\* a lookup by a rank that the table does not hold
C22_NotFoundWitness ==
    /\ op = "get_merge_forest_subtree"
    /\ ret.status = 404
    /\ ranks # <<>>
    /\ req.rank = Len(ranks)

----------------------------------------------------------------------------
(* Claims about the empty text *)

\* C23: for the empty text and any two rank tables, build_merge_tree returns
\* an empty forest, compute_merge_steps returns no steps, and
\* compare_merge_trees reports is_compatible = true with conflict_count = 0
\* and empty shared_intermediates, only_a and only_b.
C23_EmptyText ==
    text = <<>> =>
        /\ TreeBuilt => ret = <<>>
        /\ StepsComputed => ret = <<>>
        /\ Compared =>
              /\ ret.conflict_analysis.is_compatible
              /\ ret.conflict_analysis.conflict_count = 0
              /\ ret.conflict_analysis.shared_intermediates = <<>>
              /\ ret.conflict_analysis.only_a = <<>>
              /\ ret.conflict_analysis.only_b = <<>>
              /\ ret.tokenizer_a.trees = <<>> /\ ret.tokenizer_b.trees = <<>>
              /\ ret.tokenizer_a.steps = <<>> /\ ret.tokenizer_b.steps = <<>>
              /\ ret.tokenizer_a.final_tokens = <<>>
              /\ ret.tokenizer_b.final_tokens = <<>>
              /\ ret.initial_bytes = <<>>

\* the comparison of the empty text under two different tables with rules
C23_Witness ==
    /\ text = <<>>
    /\ Compared
    /\ Len(ranks) = MaxCompareEntries
    /\ ranks_b # <<>>
    /\ DictGetOr(ranks, ranks_b[1][1], -1) # ranks_b[1][2]

\* the empty forest and the empty step log under a table with rules
C23_TreeWitness ==
    /\ text = <<>>
    /\ ranks # <<>>
    /\ TreeBuilt \/ StepsComputed
    /\ ret = <<>>

----------------------------------------------------------------------------
(* Claims about the entries the detector skips *)

\* a display string that starts with "<" and ends with ">"
Bracketed(str) == str # <<>> /\ Head(str) = 60 /\ str[Len(str)] = 62

\* C24: no finding returned by detect_undertrained_tokens is for a
\* vocabulary symbol whose display string starts with "<" and ends with ">",
\* whatever the merge rules are.
C24_NoFindingForMarkers ==
    Detected =>
        \A k \in 1..Len(ret) :
            /\ ~Bracketed(ret[k].token_str)
            /\ DictHas(vocab, ret[k].token_str)
            /\ DictGet(vocab, ret[k].token_str) = ret[k].token_id

\* the entry "<a>" with no rule that produces it: it would be unreachable,
\* and the only finding is the one for "bb"
C24_Witness ==
    /\ Detected
    /\ vocab[1][1] = <<60, 97, 62>>
    /\ merges_raw = <<>>
    /\ Len(ret) = 1
    /\ ret[1].token_str = <<98, 98>>

----------------------------------------------------------------------------
(* Claims about the ranks of the merge rules *)

\* the rule pair at position i of the rule list, as the detector keys it
RuleKey(i) == <<Encode(merges_raw[i][1]), Encode(merges_raw[i][2])>>

\* the earliest position of the rule pair of position i (0 = first rule)
EarliestPosition(i) ==
    (CHOOSE j \in 1..i : RuleKey(j) = RuleKey(i)
                         /\ \A k \in 1..(j - 1) : RuleKey(k) # RuleKey(i)) - 1

\* C25: the detector's mapping from rule pair to rule rank gives every pair
\* of the ordered rule list its position in that list (0 = earliest); when
\* the pair occurs at more than one position, the rank is its earliest
\* position.
C25_RuleRankIsEarliestPosition ==
    Detected =>
        LET merge_ranks == BuildMergeRanks(merges_raw, 1, <<>>)
        IN  \A i \in 1..Len(merges_raw) :
                /\ DictHas(merge_ranks, RuleKey(i))
                /\ DictGet(merge_ranks, RuleKey(i)) = EarliestPosition(i)

\* the rule (a, b) at positions 0 and 2 is ranked 2, behind (b, c): "abc" is
\* reduced to a, bc and reported as unreachable, whereas with (a, b) ranked
\* 0 the rules give ab, then abc
C25_Witness ==
    /\ Detected
    /\ merges_raw = RepeatedRuleList
    /\ DictGet(BuildMergeRanks(merges_raw, 1, <<>>), <<(<<97>>), (<<98>>)>>) = 2
    /\ Len(ret) = 1
    /\ ret[1].token_str = <<97, 98, 99>>
    /\ ret[1].actual_merge_result = <<(<<97>>), (<<98, 99>>)>>

\* what holds of the mapping: every pair has the last of its positions
C25_RuleRankIsLastPosition ==
    Detected =>
        LET merge_ranks == BuildMergeRanks(merges_raw, 1, <<>>)
        IN  \A i \in 1..Len(merges_raw) :
                DictGet(merge_ranks, RuleKey(i)) =
                    (CHOOSE j \in i..Len(merges_raw) :
                         /\ RuleKey(j) = RuleKey(i)
                         /\ \A k \in (j + 1)..Len(merges_raw) : RuleKey(k) # RuleKey(i)) - 1

----------------------------------------------------------------------------
(* Claims about the registry *)

\* the cache without the item of a name
Without(cache, name) == SelectSeq(cache, LAMBDA item : item[1] # name)

\* the cache after a call that returned the cached adapter of name: the same
\* adapter, now the most recently used, the others in their order
ReturnedCached(name) ==
    /\ DictGet(_cache', name) = DictGet(_cache, name)
    /\ _cache'[Len(_cache')][1] = name
    /\ Len(_cache') = Len(_cache)
    /\ Without(_cache', name) = Without(_cache, name)

\* the cache after a load of a name that was not cached: a new adapter over
\* the files of the name, most recently used; the least recently used
\* adapter is removed when the cache was full, none otherwise
LoadedNew(name) ==
    /\ _cache'[Len(_cache')] = <<name, HuggingFaceAdapter(hub[name])>>
    /\ Without(_cache', name) =
           IF Len(_cache) >= MaxCacheSize THEN Tail(_cache) ELSE _cache

\* C26: TokenizerRegistry follows an LRU policy over any sequence of load
\* and get calls: the number of cached adapters never exceeds
\* max_cache_size; an adapter is removed only by a load of an uncached name
\* that overflows the cache, and it is then the first of the cache, which is
\* ordered by the last return of each adapter by load or get; a load or get
\* of a cached name returns the cached adapter without creating a new one
\* and makes it the most recently used.
C26_RegistryIsLru ==
    [][/\ Len(_cache') <= MaxCacheSize
       /\ \A i, j \in 1..Len(_cache') : _cache'[i][1] = _cache'[j][1] => i = j
       /\ op' = "publish" => _cache' = _cache
       /\ op' = "load_tokenizer" =>
             IF DictHas(_cache, req'.name)
             THEN ReturnedCached(req'.name)
             ELSE LoadedNew(req'.name)
       /\ op' = "get_undertrained" =>
             IF DictHas(_cache, req'.tok_id)
             THEN ReturnedCached(req'.tok_id) /\ ret'.status = 200
             ELSE _cache' = _cache /\ ret'.status = 404]_vars

\* the names of a dict, in order
KeysOf(d) == [i \in 1..Len(d) |-> d[i][1]]

\* a full cache after an eviction that followed the use, not the load
\* order: org/wordlevel was queried after org/bpe (their detection results
\* were cached in this order) and is gone, org/bpe is still cached, with the
\* adapter of its first load although its files have changed since
C26_Witness ==
    /\ op = "load_tokenizer"
    /\ Len(_cache) = MaxCacheSize
    /\ KeysOf(_undertrained_cache) = <<"org/bpe", "org/wordlevel">>
    /\ DictHas(_cache, "org/bpe")
    /\ ~DictHas(_cache, "org/wordlevel")
    /\ DictGet(_cache, "org/bpe") = HuggingFaceAdapter(BpeFiles)
    /\ hub["org/bpe"] = BpeFilesUpdated

----------------------------------------------------------------------------
(* Claims about the independence of the forest queries *)

\* the response to the last query when no forest query came before it: the
\* forest is built from the rank table of the registered adapter
FirstResponse ==
    MergeForestResponse(build_merge_entries(get_merge_ranks(Registered)),
                        req.page, req.page_size, req.search, req.sort_by,
                        req.sort_dir, req.filter)

\* C27: the page of entries returned by a forest query is a function of the
\* tokenizer's rank table and the query's own parameters only: after any
\* history of earlier forest queries for the tokenizer id, the query returns
\* the entries, in the order, that it returns when it is the first query.
C27_PageIndependentOfHistory ==
    ForestServed =>
        /\ ret.entries = FirstResponse.entries
        /\ ret.total = FirstResponse.total

\* a query for the leaves by byte length whose page differs from the page
\* of the same query as first query
C27_Witness ==
    /\ ForestServed
    /\ req.filter = "leaves"
    /\ req.sort_by = "byte_length"
    /\ req.sort_dir = "asc"
    /\ req.page = 1
    /\ ret.entries # FirstResponse.entries
    /\ Range(ret.entries) = Range(FirstResponse.entries)

\* what holds of the page whatever the history: its total, and the counts of
\* leaves, merges and roots
C27_CountsIndependentOfHistory ==
    ForestServed =>
        /\ ret.total = FirstResponse.total
        /\ ret.total_leaves = FirstResponse.total_leaves
        /\ ret.total_merges = FirstResponse.total_merges
        /\ ret.total_roots = FirstResponse.total_roots

----------------------------------------------------------------------------
(* Claims about the reasons that occur together *)

\* C28: in every finding of detect_undertrained_tokens the reason "not a
\* product of any merge rule" never occurs without the reason "unreachable
\* via BPE merges", so no finding has confidence exactly 0.6; a multi-byte
\* symbol that the simulation reduces to exactly itself is the left + right
\* concatenation of some rule.
C28_NotProductImpliesUnreachable ==
    Detected =>
        /\ \A k \in 1..Len(ret) :
               /\ ReasonNotProduct \in Range(ret[k].reason)
                      => ReasonUnreachable \in Range(ret[k].reason)
               /\ ret[k].confidence # ConfNotProduct
        /\ \A i \in 1..Len(vocab) :
               LET token_bytes == Encode(vocab[i][1])
               IN  (Len(token_bytes) > 1 /\ GreedyMerge(BytePieces(token_bytes)) = <<token_bytes>>)
                       => \E r \in 1..Len(merges_raw) :
                              Encode(merges_raw[r][1]) \o Encode(merges_raw[r][2]) = token_bytes

\* an entry of three characters that two rules reduce to itself, reported
\* for its unusual byte only
C28_Witness ==
    /\ Detected
    /\ Len(vocab) = 1
    /\ Len(vocab[1][1]) = 3
    /\ Len(merges_raw) = 2
    /\ Len(ret) = 1
    /\ ret[1].reason = <<ReasonUnusualBytes>>

\* a finding with both reasons
C28_BothReasonsWitness ==
    /\ Detected
    /\ \E k \in 1..Len(ret) :
           /\ ReasonNotProduct \in Range(ret[k].reason)
           /\ ReasonUnreachable \in Range(ret[k].reason)

----------------------------------------------------------------------------
(* Claims about the final tokens of a comparison *)

\* the display texts of the roots of a tokenizer's trees, in order
RootTexts(part) == [i \in 1..Len(part.trees) |-> part.trees[i].token]

\* whether every byte of the text is printable ASCII (32 <= b < 127)
PrintableText == \A i \in 1..Len(Encode(text)) :
                    32 <= Encode(text)[i] /\ Encode(text)[i] < 127

\* C29: in the result of compare_merge_trees, each tokenizer's final_tokens
\* is the list of the display texts of the roots of its trees, in order,
\* also when no merge applies and the text has bytes outside printable ASCII.
C29_FinalTokensAreRootTexts ==
    Compared =>
        /\ ret.tokenizer_a.final_tokens = RootTexts(ret.tokenizer_a)
        /\ ret.tokenizer_b.final_tokens = RootTexts(ret.tokenizer_b)

\* a comparison of a text with a byte outside printable ASCII in which the
\* first table applies no merge and the second applies one
C29_Witness ==
    /\ Compared
    /\ ~PrintableText
    /\ ret.tokenizer_a.steps = <<>>
    /\ ret.tokenizer_b.steps # <<>>
    /\ ret.tokenizer_a.final_tokens # RootTexts(ret.tokenizer_a)
    /\ ret.tokenizer_b.final_tokens = RootTexts(ret.tokenizer_b)

\* what holds of final_tokens: it is the list of root texts when a merge
\* was applied or the text is printable ASCII, and the list of initial_bytes
\* (with its "0x.." strings) otherwise
C29_FinalTokensUnlessNoMerge ==
    Compared =>
        \A part \in {ret.tokenizer_a, ret.tokenizer_b} :
            /\ (part.steps # <<>> \/ PrintableText)
                   => part.final_tokens = RootTexts(part)
            /\ part.steps = <<>> => part.final_tokens = ret.initial_bytes
            /\ (part.steps = <<>> /\ ~PrintableText)
                   => part.final_tokens # RootTexts(part)

----------------------------------------------------------------------------
(* Claims about the identity of the intermediates of a comparison *)

\* the byte sequences of the internal nodes of a forest of MergeNodes
InternalBytes(forest) ==
    {n.token : n \in {m \in UNION {NodesOf(forest[i]) : i \in 1..Len(forest)} :
                         ~is_leaf(m)}}

InternalBytesA == InternalBytes(build_merge_tree(text, ranks))

InternalBytesB == InternalBytes(build_merge_tree(text, ranks_b))

\* C30: compare_merge_trees reports is_compatible = true only if the two
\* forests have the same set of internal-node byte sequences; two
\* intermediates of different bytes are never counted as one shared
\* intermediate because their display strings coincide.
C30_CompatibleOnlyIfSameBytes ==
    (Compared /\ ret.conflict_analysis.is_compatible)
        => InternalBytesA = InternalBytesB

\* a comparison reported compatible, with one shared intermediate, in which
\* the internal nodes of the two forests have different bytes
C30_Witness ==
    /\ Compared
    /\ ret.conflict_analysis.is_compatible
    /\ Len(ret.conflict_analysis.shared_intermediates) = 1
    /\ InternalBytesA # {}
    /\ InternalBytesA \cap InternalBytesB = {}

\* what holds of is_compatible: it is true exactly when the two forests
\* have the same set of display strings of internal nodes, hence whenever
\* they have the same set of internal-node byte sequences
C30_CompatibleIffSameDisplay ==
    Compared =>
        /\ ret.conflict_analysis.is_compatible
               <=> ({Decode(b) : b \in InternalBytesA}
                        = {Decode(b) : b \in InternalBytesB})
        /\ InternalBytesA = InternalBytesB => ret.conflict_analysis.is_compatible

============================================================================
